---- MODULE Spec2Model ----
(***************************************************************************)
(* wagtailmeili: the index lifecycle manager (MeilisearchRebuilder), the   *)
(* document synchronisation of MeilisearchIndex and the Meilisearch engine *)
(* they drive.  The engine runs its tasks asynchronously, in the order     *)
(* they were enqueued; the caller of the library is sequential.            *)
(***************************************************************************)
EXTENDS Integers, Sequences, FiniteSets, TLC

\* Number of handler calls (start, finish, add_model, add_items, ...) of a run.
MaxCalls == 4

\* Number of notifications (page_unpublished, cleanup runs) handled in a run.
MaxEvents == 2

\* Ticks of 75 ms the clock of a polling loop is followed for.
MaxTime == 5

VARIABLES
    engine,          \* the engine's physical indexes: uid -> set of stored documents
    queue,           \* the engine's task queue (enqueued tasks, oldest first)
    polled,          \* status of the task the caller is waiting for
    _name,           \* MeilisearchIndex._name, the logical name
    name,            \* MeilisearchIndex.name, the write target
    pc,              \* position of the caller inside the handler it runs
    new_index_name,  \* local of MeilisearchRebuilder.start
    documents,       \* local of add_items: the prepared documents
    ret,             \* what the last handler returned, or "raised"
    log,             \* engine requests issued by the current (last) handler call
    sess,            \* the rebuild session: what start() saw and what was written
    calls,           \* handler calls made so far
    op,              \* the handler that runs, or ran last
    cleanup,         \* what the last cleanup_stale_documents call read and was given
    backend,         \* MeilisearchBackend: skip_models, skip_models_by_field_value
    has_documents,   \* local of add_item and add_items: get_documents().total > 0
    hist,            \* what the handlers were given and what the notifications did
    indexes,         \* local of reset_index, delete_all_indexes and the cleanup command: the indexes left
    compiler,        \* the query compiler and the results object on it: its query, its caches,
                     \* the call made last, the result
    poll             \* check_for_task_successful_completion: its clock and the status read

vars == <<engine, queue, polled, _name, name, pc, new_index_name, documents,
          ret, log, sess, calls, op, cleanup, backend, has_documents, hist,
          indexes, compiler, poll>>

----------------------------------------------------------------------------
\* backend.py: MeilisearchBackend

\* The uppercase letters and their lowercase.
Lowercase ==
    [c \in {"A", "B", "C", "D", "E", "F", "G", "H", "I", "J", "K", "L", "M",
            "N", "O", "P", "Q", "R", "S", "T", "U", "V", "W", "X", "Y", "Z"} |->
        CASE c = "A" -> "a" [] c = "B" -> "b" [] c = "C" -> "c"
          [] c = "D" -> "d" [] c = "E" -> "e" [] c = "F" -> "f"
          [] c = "G" -> "g" [] c = "H" -> "h" [] c = "I" -> "i"
          [] c = "J" -> "j" [] c = "K" -> "k" [] c = "L" -> "l"
          [] c = "M" -> "m" [] c = "N" -> "n" [] c = "O" -> "o"
          [] c = "P" -> "p" [] c = "Q" -> "q" [] c = "R" -> "r"
          [] c = "S" -> "s" [] c = "T" -> "t" [] c = "U" -> "u"
          [] c = "V" -> "v" [] c = "W" -> "w" [] c = "X" -> "x"
          [] c = "Y" -> "y" [] c = "Z" -> "z"]

\* Python's str.lower() of one character.
LowerChar(c) == IF c \in DOMAIN Lowercase THEN Lowercase[c] ELSE c

\* lower() as the identity.
lower_unchanged(chars) == chars

\* str.lower() of a string, held as the sequence of its characters.
lower(chars) == [i \in DOMAIN chars |-> LowerChar(chars[i])]

\* "wagtailmeili_testapp", the app label of the test models.
AppLabel ==
    <<"w", "a", "g", "t", "a", "i", "l", "m", "e", "i", "l", "i", "_",
      "t", "e", "s", "t", "a", "p", "p">>

\* Entries of SKIP_MODELS and keys of SKIP_MODELS_BY_FIELD_VALUE as settings
\* write them: "wagtailmeili_testapp.MoviePage",
\* "WAGTAILMEILI_TESTAPP.moviepage" and "wagtailmeili_testapp.reviewpage".
MoviePageEntry == AppLabel \o <<".", "M", "o", "v", "i", "e", "P", "a", "g", "e">>
MoviePageUpperEntry ==
    <<"W", "A", "G", "T", "A", "I", "L", "M", "E", "I", "L", "I", "_",
      "T", "E", "S", "T", "A", "P", "P">>
        \o <<".", "m", "o", "v", "i", "e", "p", "a", "g", "e">>
ReviewPageEntry ==
    AppLabel \o <<".", "r", "e", "v", "i", "e", "w", "p", "a", "g", "e">>

\* The index names of the two indexed test models, app label + "_" + model
\* name, lowercased: MoviePage, and RelatedMoviePage whose search_fields hold
\* RelatedFields('author').
LogicalName == "wagtailmeili_testapp_moviepage"
RelatedName == "wagtailmeili_testapp_relatedmoviepage"

\* Whether self.model is RelatedMoviePage.
HasRelatedFields == _name = RelatedName

\* "wagtailmeili_testapp.RelatedMoviePage".
RelatedMoviePageEntry ==
    AppLabel \o <<".", "R", "e", "l", "a", "t", "e", "d",
                  "M", "o", "v", "i", "e", "P", "a", "g", "e">>

\* f"{model._meta.app_label}.{model.__name__}" of the indexed model.
ModelIdentifier ==
    IF HasRelatedFields THEN RelatedMoviePageEntry ELSE MoviePageEntry

\* The identifiers of the two models, lowercased.
MoviePageKey == lower(MoviePageEntry)
RelatedMoviePageKey == lower(RelatedMoviePageEntry)

\* f"{model._meta.app_label}.{model.__name__}".lower() of the indexed model.
ModelKey == IF HasRelatedFields THEN RelatedMoviePageKey ELSE MoviePageKey

\* The rule of the test settings: {"field": "title", "value": "Return of the
\* Jedi"}.
JediRule == [field |-> "title", value |-> "Return of the Jedi"]

\* _get_skipped_models: the entries of SKIP_MODELS, each lowercased.
get_skipped_models(skip_models) == {lower(model) : model \in skip_models}

\* _get_skipped_models_by_field_value: the dictionary with its keys
\* lowercased.
get_skipped_models_by_field_value(skip_models_by_field_value) ==
    [key \in {lower(model) : model \in DOMAIN skip_models_by_field_value} |->
        skip_models_by_field_value[
            CHOOSE model \in DOMAIN skip_models_by_field_value :
                lower(model) = key]]

\* settings.RANKING_RULES, the base ranking rules of the backend.
RANKING_RULES ==
    <<"words", "typo", "proximity", "attribute", "sort", "exactness">>

\* MeilisearchBackend(params): what __init__ keeps of the settings.
MeilisearchBackend(params) ==
    [skip_models |-> get_skipped_models(params.SKIP_MODELS),
     skip_models_by_field_value |->
        get_skipped_models_by_field_value(params.SKIP_MODELS_BY_FIELD_VALUE),
     ranking_rules |-> RANKING_RULES]

\* DEFAULT_SETTINGS: no model is skipped and no rule is set.
NoSkips ==
    [skip_models |-> {}, skip_models_by_field_value |-> <<>>,
     ranking_rules |-> RANKING_RULES]

\* The index name of CustomMoviePage, a model that declares
\* ranking_rules = ['date:asc', 'custom_rule'].
CustomName == "wagtailmeili_testapp_custommoviepage"

\* hasattr(self.model, "ranking_rules").
HasRankingRules == _name = CustomName

\* self.model.ranking_rules.
ModelRankingRules == <<"date:asc", "custom_rule">>

\* update_index_settings: self.backend.ranking_rules.extend(
\* self.model.ranking_rules) when the model declares ranking rules.
extend_ranking_rules(b) ==
    IF HasRankingRules
    THEN [b EXCEPT !.ranking_rules = @ \o ModelRankingRules]
    ELSE b

\* The settings a project can run the backend with.
Params ==
    [SKIP_MODELS : {{}, {MoviePageEntry}, {MoviePageUpperEntry},
                    {ReviewPageEntry}},
     SKIP_MODELS_BY_FIELD_VALUE :
        {<<>>, MoviePageEntry :> JediRule, MoviePageUpperEntry :> JediRule}]

\* Variant of model_is_skipped that compares the identifier as it is written.
model_is_skipped_as_written(skip_models) ==
    IF skip_models = {} THEN FALSE
    ELSE ModelIdentifier \in {lower(item) : item \in skip_models}

\* utils.model_is_skipped(model, skip_models): the lowercased identifier of
\* the model is among the lowercased entries.
model_is_skipped(skip_models) ==
    IF skip_models = {} THEN FALSE
    ELSE ModelKey \in {lower(item) : item \in skip_models}

\* Before the first handler call: nothing was passed, no notification handled.
NoHist ==
    [events |-> 0, unpublished |-> {}, removed |-> {}, failed |-> FALSE,
     excluded |-> {}, deleted |-> {}, known |-> {}, results |-> <<>>, raised_at |-> "",
     given |-> "none", pk |-> 0, pks |-> {}, answer |-> "none",
     during |-> {}, session |-> 0, cleaned |-> FALSE, names |-> {},
     dry_run |-> FALSE, total_cleaned |-> 0, report |-> "none", read |-> "none"]

----------------------------------------------------------------------------
\* Records of the content store and their projection

\* Primary keys of the records of the indexed model.
Pks == {1, 12}

\* A record: primary key, the Page.live flag, the revision of its content,
\* its title, and its foreign key (no author: null).
Record(pk, live, rev) ==
    [pk |-> pk, live |-> live, rev |-> rev, title |-> "A New Hope",
     author |-> {}]

\* The record with another title.
Titled(record, title) == [record EXCEPT !.title = title]

\* The record with its foreign key set.
Authored(record, author) == [record EXCEPT !.author = {author}]

Digit(d) == <<"0", "1", "2", "3", "4", "5", "6", "7", "8", "9">>[d + 1]

\* Python's str() of a non-negative integer.
RECURSIVE str(_)
str(k) == IF k < 10 THEN Digit(k) ELSE str(k \div 10) \o Digit(k % 10)

\* A JSON scalar as the engine stores and returns it: a number or a string.
JsonNumber(k) == [t |-> "number", s |-> str(k)]
JsonString(s) == [t |-> "string", s |-> s]

\* The engine identifies a document by the text of its primary-key value.
DocKey(doc) == doc.id.s

\* _process_model_instance: None for a record that is not live, else the
\* document with "id": instance.pk (the key as the store holds it), the
\* search fields, and for RelatedFields the key of a foreign key only when
\* the value is a Model: a null foreign key sets no key.
process_model_instance(instance) ==
    IF instance.live = FALSE THEN {}
    ELSE LET document == [id |-> JsonNumber(instance.pk), rev |-> instance.rev,
                          title |-> instance.title]
         IN IF ~HasRelatedFields \/ instance.author = {} THEN {document}
            ELSE {document @@
                    ("author" :> {[id |-> JsonNumber(a)] : a \in instance.author})}

\* _should_skip(item, model, skipped_models_by_field_value): the model is
\* skipped, or the page is not live, or the rule of the lowercased model
\* key names a field whose value the item holds.
should_skip(item, skipped_models_by_field_value) ==
    LET model_key == ModelKey IN
    \/ model_is_skipped(backend.skip_models)
    \/ ~item.live
    \/ /\ model_key \in DOMAIN skipped_models_by_field_value
       /\ item[skipped_models_by_field_value[model_key].field]
              = skipped_models_by_field_value[model_key].value

\* prepare_documents: the documents of the items that are not skipped.
prepare_documents(items) ==
    UNION {process_model_instance(item) :
              item \in {i \in items :
                           ~should_skip(i, backend.skip_models_by_field_value)}}

----------------------------------------------------------------------------
\* The engine

Task(kind, uid, uid2, docs, ids) ==
    [kind |-> kind, uid |-> uid, uid2 |-> uid2, docs |-> docs, ids |-> ids,
     watched |-> FALSE, merge |-> FALSE]

Watched(task) == [task EXCEPT !.watched = TRUE]

\* Every task sent as the task of add_documents.
SentAsAddition(task, has_docs) == task

\* The task of update_documents (PUT) when has_documents, of add_documents
\* (POST) otherwise.
Sent(task, has_docs) == [task EXCEPT !.merge = has_docs]

HasIndex(uid) == uid \in DOMAIN engine

DocsOf(uid) == IF HasIndex(uid) THEN engine[uid] ELSE {}

Without(eng, uid) == [u \in DOMAIN eng \ {uid} |-> eng[u]]

With(eng, uid, docs) == (uid :> docs) @@ eng

\* Documents are replaced by key.
Upsert(old, new) ==
    {d \in old : \A n \in new : DocKey(n) # DocKey(d)} \cup new

\* Documents are updated by key: the fields of the new document are set, the
\* other fields of the stored document stay.
Merged(old, new) ==
    {d \in old : \A n \in new : DocKey(n) # DocKey(d)}
        \cup {IF \E d \in old : DocKey(d) = DocKey(n)
              THEN n @@ (CHOOSE d \in old : DocKey(d) = DocKey(n))
              ELSE n : n \in new}

\* Whether the engine can carry out the task on its current indexes.
CanApply(task) ==
    CASE task.kind = "indexCreation" -> ~HasIndex(task.uid)
      [] task.kind = "indexDeletion" -> HasIndex(task.uid)
      [] task.kind = "indexSwap" -> HasIndex(task.uid) /\ HasIndex(task.uid2)
      [] task.kind = "documentDeletion" -> HasIndex(task.uid)
      [] task.kind = "allDocumentsDeletion" -> HasIndex(task.uid)
      [] OTHER -> TRUE

\* The indexes after the task succeeded.
Apply(task) ==
    CASE task.kind = "indexCreation" -> With(engine, task.uid, {})
      [] task.kind = "indexDeletion" -> Without(engine, task.uid)
      [] task.kind = "indexSwap" ->
            [u \in DOMAIN engine |->
                IF u = task.uid THEN engine[task.uid2]
                ELSE IF u = task.uid2 THEN engine[task.uid]
                ELSE engine[u]]
      [] task.kind = "documentAdditionOrUpdate" ->
            With(engine, task.uid,
                 IF task.merge THEN Merged(DocsOf(task.uid), task.docs)
                 ELSE Upsert(DocsOf(task.uid), task.docs))
      [] task.kind = "documentDeletion" ->
            With(engine, task.uid,
                 {d \in engine[task.uid] : DocKey(d) \notin task.ids})
      [] task.kind = "allDocumentsDeletion" -> With(engine, task.uid, {})
      [] OTHER -> With(engine, task.uid, DocsOf(task.uid))

Unwatch(q) == [i \in DOMAIN q |-> [q[i] EXCEPT !.watched = FALSE]]

\* The engine carries out the oldest enqueued task.
TaskSucceeds ==
    /\ queue # <<>>
    /\ CanApply(Head(queue))
    /\ engine' = Apply(Head(queue))
    /\ polled' = IF Head(queue).watched THEN "succeeded" ELSE polled
    /\ queue' = Tail(queue)
    /\ sess' = IF Head(queue).kind = "indexSwap"
               THEN [sess EXCEPT !.shadow_docs = DocsOf(name)]
               ELSE sess
    /\ UNCHANGED <<_name, name, pc, new_index_name, documents, ret, log, calls, op>>
    /\ UNCHANGED <<backend, hist, has_documents>>
    /\ UNCHANGED cleanup
    /\ UNCHANGED indexes
    /\ UNCHANGED compiler
    /\ UNCHANGED poll

\* The oldest enqueued task fails (index_not_found, index_already_exists, or
\* an internal error of the engine); a failed task changes no index.
TaskFails ==
    /\ queue # <<>>
    /\ polled' = IF Head(queue).watched THEN "failed" ELSE polled
    /\ queue' = Tail(queue)
    /\ sess' = [sess EXCEPT !.task_failed = TRUE]
    /\ cleanup' = IF cleanup.called THEN [cleanup EXCEPT !.failed = TRUE]
                  ELSE cleanup
    /\ hist' = IF Head(queue).kind = "documentDeletion"
               THEN [hist EXCEPT !.failed = TRUE] ELSE hist
    /\ UNCHANGED <<engine, _name, name, pc, new_index_name, documents, ret, log,
                   calls, op>>
    /\ UNCHANGED <<backend, has_documents>>
    /\ UNCHANGED indexes
    /\ UNCHANGED compiler
    /\ UNCHANGED poll

----------------------------------------------------------------------------
\* utils.py

\* How a read request to the engine can end: answered, answered with an HTTP
\* error status (MeilisearchApiError), or not answered at all
\* (MeilisearchCommunicationError / MeilisearchTimeoutError).
Outcomes == {"ok", "api_error", "comm_error"}

\* Variant of is_in_meilisearch that takes an error answer of the engine for
\* an existing index.
is_in_meilisearch_error_is_found(uid, outcome) ==
    CASE outcome = "comm_error" -> "raise"
      [] outcome = "api_error" -> "True"
      [] OTHER -> IF HasIndex(uid) THEN "True" ELSE "False"

\* is_in_meilisearch: get_index raises MeilisearchApiError for a missing index
\* (404) and for every other error status; both give False.  Any other
\* exception propagates to the caller.
is_in_meilisearch(uid, outcome) ==
    CASE outcome = "comm_error" -> "raise"
      [] outcome = "api_error" -> "False"
      [] OTHER -> IF HasIndex(uid) THEN "True" ELSE "False"

\* check_for_task_successful_completion on the awaited task: True once it
\* succeeded, False once it failed, False on timeout while it is not terminal.
check_for_task_successful_completion == polled = "succeeded"

\* The polling loop of check_for_task_successful_completion, step by step.
\* Time is counted in ticks of the 75 ms the loop sleeps.

\* Before the first call: no timeout given, no status read.
NoPoll == [timeout |-> 0, elapsed |-> 0, status |-> "none"]

\* The timeouts callers pass, in ticks.
Timeouts == {0, 1, 2}

\* time.time() - start_time after d more ticks, as far as the clock is followed.
Later(elapsed, d) == IF elapsed + d > MaxTime THEN MaxTime ELSE elapsed + d

\* A caller (add_model, start, finish, reset_index, delete_all_indexes) has
\* sent a request and calls check_for_task_successful_completion(client,
\* task_uid, timeout) on its task: start_time = time.time().
await_task ==
    /\ pc = "idle"
    /\ calls < MaxCalls
    /\ calls' = calls + 1
    /\ op' = "check_for_task_successful_completion"
    /\ log' = {[op |-> "create_index", uid |-> name]}
    /\ queue' = Append(queue, Watched(Task("indexCreation", name, "", {}, {})))
    /\ polled' = "none"
    /\ \E timeout \in Timeouts :
        poll' = [timeout |-> timeout, elapsed |-> 0, status |-> "none"]
    /\ pc' = "poll_timeout"
    /\ UNCHANGED <<engine, _name, name, new_index_name, documents, ret, sess,
                   cleanup, backend, has_documents, hist, indexes, compiler>>

\* The head of the loop without the test of the clock.
poll_timeout_unchecked ==
    /\ pc = "poll_timeout"
    /\ pc' = "poll_get_task"
    /\ UNCHANGED <<engine, queue, polled, _name, name, new_index_name,
                   documents, ret, log, sess, calls, op, cleanup, backend,
                   has_documents, hist, indexes, compiler, poll>>

\* The head of the loop: time.time() - start_time > timeout returns False.
poll_timeout ==
    /\ pc = "poll_timeout"
    /\ IF poll.elapsed > poll.timeout
       THEN /\ ret' = "False"
            /\ pc' = "idle"
            /\ queue' = Unwatch(queue)
            /\ polled' = "none"
       ELSE /\ pc' = "poll_get_task"
            /\ UNCHANGED <<ret, queue, polled>>
    /\ UNCHANGED <<engine, _name, name, new_index_name, documents, log, sess,
                   calls, op, cleanup, backend, has_documents, hist, indexes,
                   compiler, poll>>

\* task = client.get_task(task_uid), which takes no or one tick and can fail
\* to get an answer (the exception leaves the function); "succeeded" breaks
\* out and returns task.status == "succeeded", "failed" returns False.
poll_get_task ==
    /\ pc = "poll_get_task"
    /\ \E o \in {"ok", "comm_error"}, d \in {0, 1} :
        LET status ==
                IF polled \in {"succeeded", "failed"} THEN polled
                ELSE IF Head(queue).watched THEN "processing" ELSE "enqueued"
        IN IF o = "comm_error"
           THEN /\ ret' = "raised"
                /\ pc' = "idle"
                /\ poll' = [poll EXCEPT !.elapsed = Later(@, d)]
                /\ queue' = Unwatch(queue)
                /\ polled' = "none"
           ELSE /\ poll' = [poll EXCEPT !.elapsed = Later(@, d), !.status = status]
                /\ IF status \in {"succeeded", "failed"}
                   THEN /\ ret' = IF status = "succeeded" THEN "True" ELSE "False"
                        /\ pc' = "idle"
                        /\ queue' = Unwatch(queue)
                        /\ polled' = "none"
                   ELSE /\ pc' = "poll_sleep"
                        /\ UNCHANGED <<ret, queue, polled>>
    /\ UNCHANGED <<engine, _name, name, new_index_name, documents, log, sess,
                   calls, op, cleanup, backend, has_documents, hist, indexes,
                   compiler>>

\* time.sleep(0.075): one tick.
poll_sleep ==
    /\ pc = "poll_sleep"
    /\ poll' = [poll EXCEPT !.elapsed = Later(@, 1)]
    /\ pc' = "poll_timeout"
    /\ UNCHANGED <<engine, queue, polled, _name, name, new_index_name,
                   documents, ret, log, sess, calls, op, cleanup, backend,
                   has_documents, hist, indexes, compiler>>

----------------------------------------------------------------------------
\* index.py: MeilisearchIndex

\* The session as a later call of the caller leaves it: a failure the caller
\* has seen is over once the caller issues a new operation.
AfterCall(state) == IF state \in {"failed", "finished"} THEN "over" ELSE state

\* A step of the session: from one state of it to the next; a call outside a
\* running session leaves the session as it is.
Step(state, from, to) == IF state = from THEN to ELSE AfterCall(state)

\* A write that raises fails the session it belongs to.
AfterRaise(state) == Step(state, "started", "failed")

\* No rebuild session: what the session record holds before the first start()
\* of an index object.
NoSession(n) ==
    [n |-> n, live |-> FALSE, quiet |-> FALSE, swap |-> FALSE, pre |-> {},
     written |-> {}, indexed |-> FALSE, state |-> "none", ghost |-> FALSE,
     task_failed |-> FALSE,
     swapped |-> FALSE, shadow_docs |-> {}, deleted |-> "none",
     answered |-> TRUE]

\* backend.get_index_for_model: a new MeilisearchIndex; __init__ sets
\* self.name = self._name.
get_index_for_model ==
    /\ pc = "idle"
    /\ calls < MaxCalls
    /\ name # _name
    /\ name' = _name
    /\ calls' = calls + 1
    /\ op' = "get_index_for_model"
    /\ ret' = "index"
    /\ log' = {}
    /\ sess' = NoSession(sess.n)
    /\ UNCHANGED <<engine, queue, polled, _name, pc, new_index_name, documents>>
    /\ UNCHANGED <<backend, hist, has_documents>>
    /\ UNCHANGED cleanup
    /\ UNCHANGED indexes
    /\ UNCHANGED compiler
    /\ UNCHANGED poll

\* Variant of is_not_indexable that does not look at the skip-list.
is_not_indexable_unchecked == FALSE

\* _is_not_indexable(model): the model has search fields; SKIPPED when it is
\* in the skip-list.
is_not_indexable == model_is_skipped(backend.skip_models)

\* add_model: None for a model in the skip-list; else create_index with the
\* write target's name; a MeilisearchApiError is logged and None returned.
add_model ==
    /\ pc = "idle"
    /\ calls < MaxCalls
    /\ calls' = calls + 1
    /\ op' = "add_model"
    /\ sess' = [sess EXCEPT !.state = AfterCall(@)]
    /\ \E o \in {"ok", "api_error"} :
        IF is_not_indexable
        THEN /\ ret' = "None"
             /\ log' = {}
             /\ UNCHANGED <<queue, polled, pc>>
        ELSE IF o = "ok"
        THEN /\ queue' = Append(queue,
                                Watched(Task("indexCreation", name, "", {}, {})))
             /\ polled' = "enqueued"
             /\ log' = {[op |-> "create_index", uid |-> name]}
             /\ pc' = "add_model_poll"
             /\ UNCHANGED ret
        ELSE /\ ret' = "None"
             /\ log' = {}
             /\ UNCHANGED <<queue, polled, pc>>
    /\ UNCHANGED <<engine, _name, name, new_index_name, documents>>
    /\ UNCHANGED <<backend, hist, has_documents>>
    /\ UNCHANGED cleanup
    /\ UNCHANGED indexes
    /\ UNCHANGED compiler
    /\ UNCHANGED poll

\* Variant of update_index_settings_returns that lets the error of the
\* request out.
update_index_settings_reraising(o) ==
    IF o = "ok" THEN "task_settingsUpdate" ELSE "raised"

\* What update_index_settings hands to its caller: the task of the accepted
\* request, and None for a MeilisearchApiError and for every other exception.
update_index_settings_returns(o) ==
    IF o = "ok" THEN "task_settingsUpdate" ELSE "None"

\* add_model: None unless the creation is confirmed (timeout=300); then
\* update_index_settings sends the settings without awaiting the task and the
\* index reference is returned.  A MeilisearchApiError reaching add_model is
\* logged and None returned.
add_model_poll ==
    /\ pc = "add_model_poll"
    /\ IF check_for_task_successful_completion
       THEN \E o \in Outcomes :
            /\ queue' = IF o = "ok"
                         THEN Append(Unwatch(queue),
                                     Task("settingsUpdate", name, "", {}, {}))
                         ELSE Unwatch(queue)
            /\ log' = IF o = "ok"
                       THEN log \cup {[op |-> "update_settings", uid |-> name]}
                       ELSE log
            /\ ret' = IF update_index_settings_returns(o) = "raised" THEN "None"
                       ELSE "index"
       ELSE /\ queue' = Unwatch(queue)
            /\ ret' = "None"
            /\ UNCHANGED log
    /\ backend' = IF check_for_task_successful_completion
                  THEN extend_ranking_rules(backend) ELSE backend
    /\ pc' = "idle"
    /\ polled' = "none"
    /\ UNCHANGED <<engine, _name, name, new_index_name, documents, sess, calls, op>>
    /\ UNCHANGED <<hist, has_documents>>
    /\ UNCHANGED cleanup
    /\ UNCHANGED indexes
    /\ UNCHANGED compiler
    /\ UNCHANGED poll

\* update_index_settings(): the model's ranking rules are appended to the
\* backend's list, the settings are sent and the task is returned without
\* being awaited; every error of the request is logged and None returned.
update_index_settings ==
    /\ pc = "idle"
    /\ calls < MaxCalls
    /\ calls' = calls + 1
    /\ op' = "update_index_settings"
    /\ backend' = extend_ranking_rules(backend)
    /\ sess' = [sess EXCEPT !.state = AfterCall(@)]
    /\ \E o \in Outcomes :
        IF o = "ok"
        THEN /\ queue' = Append(queue, Task("settingsUpdate", name, "", {}, {}))
             /\ log' = {[op |-> "update_settings", uid |-> name]}
             /\ ret' = update_index_settings_returns(o)
        ELSE /\ ret' = update_index_settings_returns(o)
             /\ log' = {}
             /\ UNCHANGED queue
    /\ UNCHANGED <<engine, polled, _name, name, pc, new_index_name, documents,
                   cleanup, has_documents, hist, indexes>>
    /\ UNCHANGED compiler
    /\ UNCHANGED poll

\* The records of the documents were written while live: they are published
\* and their documents are not awaiting removal any more.
Reindexed(h, docs) ==
    LET pks == {pk \in Pks : \E d \in docs : DocKey(d) = str(pk)}
    IN [h EXCEPT !.unpublished = @ \ pks, !.removed = @ \ pks,
                 !.during = @ \ pks, !.excluded = @ \ pks,
                 !.deleted = @ \ pks]

\* Whether a rule of SKIP_MODELS_BY_FIELD_VALUE is set.
RuleIsSet == DOMAIN backend.skip_models_by_field_value # {}

\* The live records among the items that the rule of the model excludes.
ExcludedByRule(items) ==
    LET rules == backend.skip_models_by_field_value
        model_key == ModelKey
    IN IF model_key \notin DOMAIN rules THEN {}
       ELSE {item.pk : item \in
                {i \in items : i.live /\ i[rules[model_key].field]
                                            = rules[model_key].value}}

\* The call was given records the rule excludes.
Excluding(h, items) == [h EXCEPT !.excluded = @ \cup ExcludedByRule(items)]

\* The batches of records a caller passes to add_items; the content revision
\* of a record is the number of the rebuild that reads it.
Batches(rev) ==
    { {Record(1, TRUE, rev)},
      {Record(1, TRUE, rev), Record(12, TRUE, rev)},
      {Record(12, FALSE, rev)} }
        \cup (IF RuleIsSet
              THEN {{Titled(Record(1, TRUE, rev), JediRule.value),
                     Record(12, TRUE, rev)}}
              ELSE {})
        \cup (IF HasRelatedFields
              THEN {{Record(1, TRUE, rev), Authored(Record(12, TRUE, rev), 7)}}
              ELSE {})

\* add_items, up to the read of the index: prepare_documents, and when there
\* are documents, self.index.get_documents().total > 0.
add_items ==
    /\ pc = "idle"
    /\ calls < MaxCalls
    /\ calls' = calls + 1
    /\ op' = "add_items"
    /\ log' = {}
    /\ \E items \in Batches(sess.n), o \in Outcomes :
        LET docs == prepare_documents(items) IN
        /\ hist' = Excluding(hist, items)
        /\ IF docs = {}
           THEN /\ ret' = "None"
                /\ sess' = [sess EXCEPT !.state = AfterCall(@), !.indexed = TRUE]
                /\ UNCHANGED <<pc, documents, has_documents>>
           ELSE IF o = "ok"
           THEN \* the total was read, or the error says index_not_found
                /\ pc' = "add_items_send"
                /\ documents' = docs
                /\ has_documents' = (DocsOf(name) # {})
                /\ sess' = [sess EXCEPT !.state = AfterCall(@)]
                /\ UNCHANGED ret
           ELSE \* any other error of the read is raised to the caller
                /\ ret' = "raised"
                /\ sess' = [sess EXCEPT !.state = AfterRaise(@)]
                /\ UNCHANGED <<pc, documents, has_documents>>
    /\ UNCHANGED <<engine, queue, polled, _name, name, new_index_name>>
    /\ UNCHANGED backend
    /\ UNCHANGED cleanup
    /\ UNCHANGED indexes
    /\ UNCHANGED compiler
    /\ UNCHANGED poll

\* add_items, the write: update_documents when the index held documents,
\* add_documents otherwise; the task is returned without being awaited.
add_items_send ==
    /\ pc = "add_items_send"
    /\ queue' = Append(queue,
                       Sent(Task("documentAdditionOrUpdate", name, "",
                                 documents, {}),
                            has_documents))
    /\ log' = log \cup {[op |-> "documents", uid |-> name]}
    /\ sess' = [sess EXCEPT !.written = Upsert(@, documents), !.indexed = TRUE]
    /\ pc' = "idle"
    /\ ret' = "task_documentAdditionOrUpdate"
    /\ documents' = {}
    /\ UNCHANGED <<engine, polled, _name, name, new_index_name, calls, op>>
    /\ hist' = Reindexed(hist, documents)
    /\ has_documents' = FALSE
    /\ UNCHANGED backend
    /\ UNCHANGED cleanup
    /\ UNCHANGED indexes
    /\ UNCHANGED compiler
    /\ UNCHANGED poll

\* The records a caller passes to add_item: live or not; with a rule set,
\* also one whose title has become the rule's value; a RelatedMoviePage also
\* with its author set.
Items(rev) ==
    {Record(pk, live, rev) : pk \in Pks, live \in BOOLEAN}
        \cup (IF RuleIsSet
              THEN {Titled(Record(1, TRUE, rev), JediRule.value)} ELSE {})
        \cup (IF HasRelatedFields
              THEN {Authored(Record(12, TRUE, rev), 7)} ELSE {})

\* add_item, up to the read of the index: prepare_documents of the one item,
\* and when there is a document, self.index.get_documents().total > 0.
add_item ==
    /\ pc = "idle"
    /\ calls < MaxCalls
    /\ calls' = calls + 1
    /\ op' = "add_item"
    /\ log' = {}
    /\ \E item \in Items(sess.n), o \in Outcomes :
        LET document == prepare_documents({item}) IN
        /\ hist' = Excluding(hist, {item})
        /\ IF document = {}
           THEN /\ ret' = "None"
                /\ sess' = [sess EXCEPT !.state = AfterCall(@), !.indexed = TRUE]
                /\ UNCHANGED <<pc, documents, has_documents>>
           ELSE IF o = "ok"
           THEN /\ pc' = "add_item_send"
                /\ documents' = document
                /\ has_documents' = (DocsOf(name) # {})
                /\ sess' = [sess EXCEPT !.state = AfterCall(@)]
                /\ UNCHANGED ret
           ELSE /\ ret' = "raised"
                /\ sess' = [sess EXCEPT !.state = AfterRaise(@)]
                /\ UNCHANGED <<pc, documents, has_documents>>
    /\ UNCHANGED <<engine, queue, polled, _name, name, new_index_name, cleanup>>
    /\ UNCHANGED backend
    /\ UNCHANGED indexes
    /\ UNCHANGED compiler
    /\ UNCHANGED poll

\* Variant of add_item_send that returns the task.
add_item_send_returns_task ==
    /\ pc = "add_item_send"
    /\ queue' = Append(queue,
                       Sent(Task("documentAdditionOrUpdate", name, "",
                                 documents, {}),
                            has_documents))
    /\ log' = log \cup {[op |-> "documents", uid |-> name]}
    /\ sess' = [sess EXCEPT !.written = Upsert(@, documents), !.indexed = TRUE]
    /\ pc' = "idle"
    /\ ret' = "task_documentAdditionOrUpdate"
    /\ documents' = {}
    /\ UNCHANGED <<engine, polled, _name, name, new_index_name, calls, op,
                   cleanup>>
    /\ hist' = Reindexed(hist, documents)
    /\ has_documents' = FALSE
    /\ UNCHANGED backend
    /\ UNCHANGED indexes
    /\ UNCHANGED compiler
    /\ UNCHANGED poll

\* add_item, the write: update_documents or add_documents; the task is
\* dropped and None returned.
add_item_send ==
    /\ pc = "add_item_send"
    /\ queue' = Append(queue,
                       Sent(Task("documentAdditionOrUpdate", name, "",
                                 documents, {}),
                            has_documents))
    /\ log' = log \cup {[op |-> "documents", uid |-> name]}
    /\ sess' = [sess EXCEPT !.written = Upsert(@, documents), !.indexed = TRUE]
    /\ pc' = "idle"
    /\ ret' = "None"
    /\ documents' = {}
    /\ UNCHANGED <<engine, polled, _name, name, new_index_name, calls, op,
                   cleanup>>
    /\ hist' = Reindexed(hist, documents)
    /\ has_documents' = FALSE
    /\ UNCHANGED backend
    /\ UNCHANGED indexes
    /\ UNCHANGED compiler
    /\ UNCHANGED poll

\* bulk_delete_items: None for no keys, else delete_documents(pk_list) on the
\* write target; the engine takes each key by its text.  The task is not
\* awaited.
bulk_delete_items(q, item_pks) ==
    IF item_pks = {} THEN q
    ELSE Append(q, Task("documentDeletion", name, "", {},
                        {pk.s : pk \in item_pks}))

\* How the engine can answer a delete request: the task is enqueued, or an
\* error whose text names document_not_found, or another error status, or
\* no answer.
DeleteAnswers == {"ok", "document_not_found", "api_error", "comm_error"}

\* Variant of delete_document that sends no request.
delete_document_unsent(q, uid, pk) == q

\* self.index.delete_document(pk): the engine takes the key by its text.
delete_document(q, uid, pk) ==
    Append(q, Task("documentDeletion", uid, "", {}, {str(pk)}))

\* item_or_pk.pk when the argument has a pk, the argument itself otherwise.
PkOf(given, item_or_pk) ==
    IF given = "record" THEN Record(item_or_pk, TRUE, 0).pk ELSE item_or_pk

\* Variant of delete_item_returns that swallows every MeilisearchApiError.
delete_item_swallows(answer) ==
    CASE answer = "ok" -> "task_documentDeletion"
      [] answer \in {"document_not_found", "api_error"} -> "None"
      [] OTHER -> "raised"

\* What delete_item hands to its caller: the task, None when the error text
\* holds document_not_found, and any other error raised again.
delete_item_returns(answer) ==
    CASE answer = "ok" -> "task_documentDeletion"
      [] answer = "document_not_found" -> "None"
      [] OTHER -> "raised"

\* delete_item(item_or_pk) with a record or a raw primary key; the task is
\* returned without being awaited.
delete_item ==
    /\ pc = "idle"
    /\ calls < MaxCalls
    /\ calls' = calls + 1
    /\ op' = "delete_item"
    /\ \E given \in {"record", "pk"}, k \in Pks, answer \in DeleteAnswers :
        LET pk == PkOf(given, k) IN
        /\ hist' = [hist EXCEPT !.given = given, !.pk = k, !.pks = {},
                                !.answer = answer]
        /\ ret' = delete_item_returns(answer)
        /\ sess' = [sess EXCEPT !.state = IF ret' = "raised" THEN AfterRaise(@)
                                          ELSE AfterCall(@)]
        /\ IF answer = "ok"
           THEN /\ queue' = delete_document(queue, name, pk)
                /\ log' = {[op |-> "delete_document", uid |-> name]}
           ELSE /\ log' = {}
                /\ UNCHANGED queue
    /\ UNCHANGED <<engine, polled, _name, name, pc, new_index_name, documents,
                   cleanup, backend, has_documents>>
    /\ UNCHANGED indexes
    /\ UNCHANGED compiler
    /\ UNCHANGED poll

\* What bulk_delete_items hands to its caller: None for no keys, the task,
\* and every MeilisearchApiError logged and raised again.
bulk_delete_items_returns(item_pks, answer) ==
    CASE item_pks = {} -> "None"
      [] answer = "ok" -> "task_documentDeletion"
      [] OTHER -> "raised"

\* bulk_delete_items(item_pks) called with primary keys.
call_bulk_delete_items ==
    /\ pc = "idle"
    /\ calls < MaxCalls
    /\ calls' = calls + 1
    /\ op' = "bulk_delete_items"
    /\ \E item_pks \in SUBSET Pks, answer \in DeleteAnswers :
        /\ hist' = [hist EXCEPT !.given = "pks", !.pk = 0, !.pks = item_pks,
                                !.answer = answer]
        /\ ret' = bulk_delete_items_returns(item_pks, answer)
        /\ sess' = [sess EXCEPT !.state = IF ret' = "raised" THEN AfterRaise(@)
                                          ELSE AfterCall(@)]
        /\ IF answer = "ok" /\ item_pks # {}
           THEN /\ queue' = bulk_delete_items(queue,
                                   {JsonNumber(pk) : pk \in item_pks})
                /\ log' = {[op |-> "delete_documents", uid |-> name]}
           ELSE /\ log' = {}
                /\ UNCHANGED queue
    /\ UNCHANGED <<engine, polled, _name, name, pc, new_index_name, documents,
                   cleanup, backend, has_documents>>
    /\ UNCHANGED indexes
    /\ UNCHANGED compiler
    /\ UNCHANGED poll

\* Before the first cleanup_stale_documents call.
NoCleanup ==
    [called |-> FALSE, read |-> "none", quiet |-> FALSE, index_docs |-> {},
     live_pks |-> {}, failed |-> FALSE, answer |-> "none"]

\* A handler body under try ... except Exception that reraises what the body
\* raised.
best_effort_reraising(result) == IF result = "raised" THEN "raised" ELSE "None"

\* try: ... except Exception as e: logger.error(...): whatever the body
\* returned or raised, the handler returns None.
best_effort(result) == "None"

\* cleanup_stale_documents(live_pks): the ids of get_documents(fields=["id"])
\* as the engine returns them, minus {str(pk) for pk in live_pks}, are passed
\* to bulk_delete_items; every exception (a failed read, a missing index, a
\* delete request the engine does not accept) is logged and swallowed.
cleanup_stale_documents ==
    /\ pc = "idle"
    /\ calls < MaxCalls
    /\ calls' = calls + 1
    /\ op' = "cleanup_stale_documents"
    /\ sess' = [sess EXCEPT !.state = AfterCall(@)]
    /\ \E live_pks \in SUBSET Pks, o \in Outcomes, answer \in Outcomes :
        LET current_index_ids == {doc.id : doc \in DocsOf(name)}
            live_ids == {JsonString(str(pk)) : pk \in live_pks}
            stale_ids == current_index_ids \ live_ids
            read == IF o = "ok" /\ HasIndex(name) THEN "ok" ELSE "error"
            sent == read = "ok" /\ stale_ids # {}
        IN /\ cleanup' = [called |-> TRUE, read |-> read,
                          quiet |-> (queue = <<>>),
                          index_docs |-> DocsOf(name),
                          live_pks |-> live_pks, failed |-> FALSE,
                          answer |-> IF sent THEN answer ELSE "none"]
           /\ ret' = best_effort(IF read = "error" THEN "raised"
                                 ELSE bulk_delete_items_returns(stale_ids, answer))
           /\ IF sent
              THEN /\ queue' = IF answer = "ok"
                               THEN bulk_delete_items(queue, stale_ids) ELSE queue
                   /\ log' = {[op |-> "delete_documents", uid |-> name]}
              ELSE /\ log' = {}
                   /\ UNCHANGED queue
    /\ UNCHANGED <<engine, polled, _name, name, pc, new_index_name, documents>>
    /\ UNCHANGED <<backend, hist, has_documents>>
    /\ UNCHANGED indexes
    /\ UNCHANGED compiler
    /\ UNCHANGED poll

----------------------------------------------------------------------------
\* signals.py

\* handle_page_unpublish(sender, instance): the record is not live any more;
\* backend.get_index_for_model gives a new index object, whose name is the
\* logical name, and delete_item(pk) is called on it; every exception, of the
\* lookup of the backend and index or of delete_item, is logged and
\* swallowed.  The instance is the page Wagtail has unpublished, a saved one.
handle_page_unpublish ==
    /\ pc = "idle"
    /\ hist.events < MaxEvents
    /\ op' = "handle_page_unpublish"
    /\ \E instance \in {Record(pk, FALSE, sess.n) : pk \in Pks},
          lookup \in {"ok", "error"}, answer \in DeleteAnswers :
        LET pk == instance.pk
            sent == lookup = "ok" /\ answer = "ok"
            in_shadow == /\ sess.state = "started" /\ name # _name
                         /\ sent
                         /\ \E doc \in sess.written : DocKey(doc) = str(pk)
        IN
        /\ ret' = best_effort(IF lookup = "error" THEN "raised"
                              ELSE delete_item_returns(answer))
        /\ hist' = [hist EXCEPT !.events = @ + 1,
                                !.unpublished = @ \cup {pk},
                                !.removed = IF sent THEN @ \cup {pk}
                                            ELSE @ \ {pk},
                                !.during = IF in_shadow THEN @ \cup {pk} ELSE @,
                                !.session = IF in_shadow THEN sess.n ELSE @,
                                !.cleaned = IF in_shadow THEN FALSE ELSE @]
        /\ IF sent
           THEN /\ queue' = delete_document(queue, _name, pk)
                /\ log' = {[op |-> "delete_document", uid |-> _name]}
           ELSE /\ log' = {}
                /\ UNCHANGED queue
    /\ UNCHANGED <<engine, polled, _name, name, pc, new_index_name, documents,
                   sess, calls, cleanup, backend, has_documents>>
    /\ UNCHANGED indexes
    /\ UNCHANGED compiler
    /\ UNCHANGED poll

\* handle_page_unpublish called with an instance that has no primary key
\* (getattr(instance, "pk", None) is None): the backend and index are looked
\* up and delete_item is not called.
handle_page_unpublish_unsaved ==
    /\ pc = "idle"
    /\ hist.events < MaxEvents
    /\ op' = "handle_page_unpublish"
    /\ log' = {}
    /\ \E lookup \in {"ok", "error"} :
        ret' = best_effort(IF lookup = "error" THEN "raised" ELSE "None")
    /\ hist' = [hist EXCEPT !.events = @ + 1]
    /\ UNCHANGED <<engine, queue, polled, _name, name, pc, new_index_name,
                   documents, sess, calls, cleanup, backend, has_documents,
                   indexes, compiler, poll>>

\* A record is deleted and Django sends post_delete: connect_signals connects
\* handle_page_unpublish to page_unpublished only, so no handler of this
\* package runs.
post_delete ==
    /\ pc = "idle"
    /\ hist.events < MaxEvents
    /\ op' = "post_delete"
    /\ ret' = "None"
    /\ log' = {}
    /\ \E instance \in {Record(pk, TRUE, sess.n) : pk \in Pks} :
        hist' = [hist EXCEPT !.events = @ + 1, !.deleted = @ \cup {instance.pk}]
    /\ UNCHANGED <<engine, queue, polled, _name, name, pc, new_index_name,
                   documents, sess, calls, cleanup, backend, has_documents,
                   indexes>>
    /\ UNCHANGED compiler
    /\ UNCHANGED poll

----------------------------------------------------------------------------
\* rebuilder.py: MeilisearchRebuilder

\* What start() records of the engine when it is called.
NewSession ==
    [NoSession(sess.n + 1) EXCEPT !.live = HasIndex(_name),
                                  !.quiet = (queue = <<>>),
                                  !.pre = DocsOf(_name),
                                  !.state = "starting"]

\* start(), up to the first existence check: is_in_meilisearch(client,
\* self.index.name).  In the else branch get_index only makes a local reference.
start ==
    /\ pc = "idle"
    /\ calls < MaxCalls
    /\ calls' = calls + 1
    /\ op' = "start"
    /\ log' = {}
    /\ \E o \in Outcomes :
        LET found == is_in_meilisearch(name, o) IN
        CASE found = "raise" ->
                /\ sess' = [NewSession EXCEPT !.state = "failed"]
                /\ ret' = "raised"
                /\ UNCHANGED <<pc, new_index_name>>
          [] found = "True" ->
                /\ sess' = [NewSession EXCEPT !.swap = TRUE]
                /\ new_index_name' = name \o "_new"
                /\ pc' = "start_is_in_new"
                /\ UNCHANGED ret
          [] OTHER ->
                /\ sess' = [NewSession EXCEPT !.state = "started"]
                /\ ret' = "index"
                /\ UNCHANGED <<pc, new_index_name>>
    /\ UNCHANGED <<engine, queue, polled, _name, name, documents>>
    /\ UNCHANGED <<backend, hist, has_documents>>
    /\ UNCHANGED cleanup
    /\ UNCHANGED indexes
    /\ UNCHANGED compiler
    /\ UNCHANGED poll

\* start(): is_in_meilisearch(client, new_index_name); without a leftover
\* shadow the index is renamed and returned.
start_is_in_new ==
    /\ pc = "start_is_in_new"
    /\ \E o \in Outcomes :
        LET found == is_in_meilisearch(new_index_name, o) IN
        CASE found = "raise" ->
                /\ sess' = [sess EXCEPT !.state = "failed"]
                /\ pc' = "idle"
                /\ ret' = "raised"
                /\ UNCHANGED name
          [] found = "True" ->
                /\ sess' = [sess EXCEPT !.ghost = TRUE]
                /\ pc' = "start_delete"
                /\ UNCHANGED <<name, ret>>
          [] OTHER ->
                /\ sess' = [sess EXCEPT !.state = "started"]
                /\ name' = new_index_name
                /\ pc' = "idle"
                /\ ret' = "index"
    /\ UNCHANGED <<engine, queue, polled, _name, new_index_name, documents, log,
                   calls, op>>
    /\ UNCHANGED <<backend, hist, has_documents>>
    /\ UNCHANGED cleanup
    /\ UNCHANGED indexes
    /\ UNCHANGED compiler
    /\ UNCHANGED poll

\* start(): client.index(new_index_name).delete()
start_delete ==
    /\ pc = "start_delete"
    /\ queue' = Append(queue,
                       Watched(Task("indexDeletion", new_index_name, "", {}, {})))
    /\ polled' = "enqueued"
    /\ log' = log \cup {[op |-> "delete_index", uid |-> new_index_name]}
    /\ pc' = "start_wait"
    /\ UNCHANGED <<engine, _name, name, new_index_name, documents, ret, sess,
                   calls, op>>
    /\ UNCHANGED <<backend, hist, has_documents>>
    /\ UNCHANGED cleanup
    /\ UNCHANGED indexes
    /\ UNCHANGED compiler
    /\ UNCHANGED poll

\* Variant of start_wait that renames the index without looking at the
\* outcome of the deletion.
start_wait_unchecked ==
    /\ pc = "start_wait"
    /\ name' = new_index_name
    /\ ret' = "index"
    /\ sess' = [sess EXCEPT !.state = "started"]
    /\ pc' = "idle"
    /\ polled' = "none"
    /\ queue' = Unwatch(queue)
    /\ UNCHANGED <<engine, _name, new_index_name, documents, log, calls, op>>
    /\ UNCHANGED <<backend, hist, has_documents>>
    /\ UNCHANGED cleanup
    /\ UNCHANGED indexes
    /\ UNCHANGED compiler
    /\ UNCHANGED poll

\* start(): wait_for_task raises when the task is not terminal in time; then
\* the deletion must have succeeded, else MeiliSearchRebuildException.
start_wait ==
    /\ pc = "start_wait"
    /\ IF check_for_task_successful_completion
       THEN /\ name' = new_index_name
            /\ ret' = "index"
            /\ sess' = [sess EXCEPT !.state = "started"]
       ELSE /\ ret' = "raised"
            /\ sess' = [sess EXCEPT !.state = "failed"]
            /\ UNCHANGED name
    /\ pc' = "idle"
    /\ polled' = "none"
    /\ queue' = Unwatch(queue)
    /\ UNCHANGED <<engine, _name, new_index_name, documents, log, calls, op>>
    /\ UNCHANGED <<backend, hist, has_documents>>
    /\ UNCHANGED cleanup
    /\ UNCHANGED indexes
    /\ UNCHANGED compiler
    /\ UNCHANGED poll

\* finish(), up to the existence check of the shadow: temp_index_name is
\* self.index._name + "_new"; without a shadow finish returns None.
temp_index_name == _name \o "_new"

FinishCalled ==
    [sess EXCEPT !.swapped = FALSE, !.shadow_docs = {}, !.deleted = "none",
                 !.answered = TRUE]

finish ==
    /\ pc = "idle"
    /\ calls < MaxCalls
    /\ calls' = calls + 1
    /\ op' = "finish"
    /\ log' = {}
    /\ \E o \in Outcomes :
        LET found == is_in_meilisearch(temp_index_name, o) IN
        CASE found = "raise" ->
                /\ sess' = [FinishCalled EXCEPT !.state = Step(@, "started", "failed"),
                                                !.answered = FALSE]
                /\ ret' = "raised"
                /\ UNCHANGED pc
          [] found = "True" ->
                /\ sess' = [FinishCalled EXCEPT !.state = Step(@, "started", "finishing")]
                /\ pc' = "finish_swap"
                /\ UNCHANGED ret
          [] OTHER ->
                /\ sess' = [FinishCalled EXCEPT !.state = Step(@, "started", "finished")]
                /\ ret' = "None"
                /\ UNCHANGED pc
    /\ UNCHANGED <<engine, queue, polled, _name, name, new_index_name, documents>>
    /\ UNCHANGED <<backend, hist, has_documents>>
    /\ UNCHANGED cleanup
    /\ UNCHANGED indexes
    /\ UNCHANGED compiler
    /\ UNCHANGED poll

\* finish(): client.swap_indexes([{"indexes": [self.index.name,
\* self.index._name]}]).  The engine rejects a pair that names one index twice
\* (invalid_swap_duplicate_index_found) and finish raises.
finish_swap ==
    /\ pc = "finish_swap"
    /\ IF name = _name
       THEN /\ pc' = "idle"
            /\ ret' = "raised"
            /\ sess' = [sess EXCEPT !.state = Step(@, "finishing", "failed")]
            /\ log' = log \cup {[op |-> "swap_indexes", uid |-> name]}
            /\ UNCHANGED <<queue, polled>>
       ELSE /\ queue' = Append(queue,
                               Watched(Task("indexSwap", name, _name, {}, {})))
            /\ polled' = "enqueued"
            /\ log' = log \cup {[op |-> "swap_indexes", uid |-> name]}
            /\ pc' = "finish_poll_swap"
            /\ UNCHANGED <<ret, sess>>
    /\ UNCHANGED <<engine, _name, name, new_index_name, documents, calls, op>>
    /\ UNCHANGED <<backend, hist, has_documents>>
    /\ UNCHANGED cleanup
    /\ UNCHANGED indexes
    /\ UNCHANGED compiler
    /\ UNCHANGED poll

\* finish(): the swap must be confirmed (timeout=300), else
\* MeiliSearchRebuildException("Failed to swap indexes").
finish_poll_swap ==
    /\ pc = "finish_poll_swap"
    /\ IF check_for_task_successful_completion
       THEN /\ pc' = "finish_delete"
            /\ sess' = [sess EXCEPT !.swapped = TRUE]
            /\ UNCHANGED ret
       ELSE /\ pc' = "idle"
            /\ ret' = "raised"
            /\ sess' = [sess EXCEPT !.state = Step(@, "finishing", "failed")]
    /\ polled' = "none"
    /\ queue' = Unwatch(queue)
    /\ UNCHANGED <<engine, _name, name, new_index_name, documents, log, calls, op>>
    /\ UNCHANGED <<backend, hist, has_documents>>
    /\ UNCHANGED cleanup
    /\ UNCHANGED indexes
    /\ UNCHANGED compiler
    /\ UNCHANGED poll

\* Variant of finish_delete that deletes the index of the logical name.
finish_delete_logical ==
    /\ pc = "finish_delete"
    /\ queue' = Append(queue,
                       Watched(Task("indexDeletion", _name, "", {}, {})))
    /\ polled' = "enqueued"
    /\ log' = log \cup {[op |-> "delete_index", uid |-> _name]}
    /\ pc' = "finish_poll_delete"
    /\ UNCHANGED <<engine, _name, name, new_index_name, documents, ret, sess,
                   calls, op>>
    /\ UNCHANGED <<backend, hist, has_documents>>
    /\ UNCHANGED cleanup
    /\ UNCHANGED indexes
    /\ UNCHANGED compiler
    /\ UNCHANGED poll

\* finish(): client.index(temp_index_name).delete()
finish_delete ==
    /\ pc = "finish_delete"
    /\ queue' = Append(queue,
                       Watched(Task("indexDeletion", temp_index_name, "", {}, {})))
    /\ polled' = "enqueued"
    /\ log' = log \cup {[op |-> "delete_index", uid |-> temp_index_name]}
    /\ pc' = "finish_poll_delete"
    /\ UNCHANGED <<engine, _name, name, new_index_name, documents, ret, sess,
                   calls, op>>
    /\ UNCHANGED <<backend, hist, has_documents>>
    /\ UNCHANGED cleanup
    /\ UNCHANGED indexes
    /\ UNCHANGED compiler
    /\ UNCHANGED poll

\* Variant of finish_poll_delete that raises when the deletion is not
\* confirmed.
finish_poll_delete_strict ==
    /\ pc = "finish_poll_delete"
    /\ IF check_for_task_successful_completion
       THEN /\ sess' = [sess EXCEPT !.state = Step(@, "finishing", "finished"),
                                    !.deleted = "confirmed"]
            /\ ret' = "task_indexDeletion"
       ELSE /\ sess' = [sess EXCEPT !.state = Step(@, "finishing", "failed"),
                                    !.deleted = "unconfirmed"]
            /\ ret' = "raised"
    /\ pc' = "idle"
    /\ polled' = "none"
    /\ queue' = Unwatch(queue)
    /\ UNCHANGED <<engine, _name, name, new_index_name, documents, log, calls, op>>
    /\ UNCHANGED <<backend, hist, has_documents>>
    /\ UNCHANGED cleanup
    /\ UNCHANGED indexes
    /\ UNCHANGED compiler
    /\ UNCHANGED poll

\* finish(): an unconfirmed deletion (timeout=200) is only logged as a
\* warning; the deletion task is returned either way.
finish_poll_delete ==
    /\ pc = "finish_poll_delete"
    /\ sess' = [sess EXCEPT !.state = Step(@, "finishing", "finished"),
                            !.deleted = IF check_for_task_successful_completion
                                        THEN "confirmed" ELSE "unconfirmed"]
    /\ pc' = "idle"
    /\ ret' = "task_indexDeletion"
    /\ polled' = "none"
    /\ queue' = Unwatch(queue)
    /\ UNCHANGED <<engine, _name, name, new_index_name, documents, log, calls, op>>
    /\ UNCHANGED <<backend, hist, has_documents>>
    /\ UNCHANGED cleanup
    /\ UNCHANGED indexes
    /\ UNCHANGED compiler
    /\ UNCHANGED poll

\* Variant of _get_index_document_ids that answers a failed read with the
\* ids of every document the index can hold.
_get_index_document_ids_or_all(outcome) ==
    IF outcome = "ok" THEN {doc.id : doc \in DocsOf(_name)}
    ELSE {JsonNumber(pk) : pk \in Pks}

\* _get_index_document_ids(index): the ids of the documents as the engine
\* returns them; every error of the read is logged and gives the empty set.
_get_index_document_ids(outcome) ==
    IF outcome = "ok" THEN {doc.id : doc \in DocsOf(_name)} ELSE {}

\* rebuild_index_for_model(model), up to the bulk delete: the index object
\* comes from backend.get_index_for_model, so its name is the logical name;
\* the ids of its documents as the engine returns them (none when the read
\* fails), minus {str(pk)} of the live records, go to delete_documents.  An
\* error of the query for the live keys ends the call; an error of the
\* delete request is logged by _bulk_delete_documents.
rebuild_index_for_model ==
    /\ pc = "idle"
    /\ hist.events < MaxEvents
    /\ op' = "rebuild_index_for_model"
    /\ \E current_db_ids \in SUBSET (Pks \ hist.unpublished), o \in Outcomes,
          db \in {"ok", "error"}, answer \in {"ok", "api_error"} :
        LET current_index_ids == _get_index_document_ids(o)
            current_db_ids_str == {JsonString(str(pk)) : pk \in current_db_ids}
            stale_ids == current_index_ids \ current_db_ids_str
            read == IF o = "ok" THEN "ok" ELSE "error"
        IN
        /\ ret' = best_effort(IF db = "error" THEN "raised" ELSE "None")
        /\ IF db = "error"
           THEN /\ log' = {}
                /\ hist' = [hist EXCEPT !.events = @ + 1, !.cleaned = FALSE,
                                        !.answer = "db_error", !.read = "none"]
                /\ UNCHANGED <<queue, polled, pc>>
           ELSE IF stale_ids # {} /\ answer # "ok"
           THEN /\ log' = {[op |-> "get_documents", uid |-> _name],
                           [op |-> "delete_documents", uid |-> _name]}
                /\ hist' = [hist EXCEPT !.events = @ + 1, !.cleaned = FALSE,
                                        !.answer = answer, !.read = read]
                /\ UNCHANGED <<queue, polled, pc>>
           ELSE IF stale_ids # {}
           THEN /\ queue' = Append(queue,
                                   Watched(Task("documentDeletion", _name, "", {},
                                                {id.s : id \in stale_ids})))
                /\ polled' = "enqueued"
                /\ log' = {[op |-> "get_documents", uid |-> _name],
                           [op |-> "delete_documents", uid |-> _name]}
                /\ pc' = "rebuild_index_for_model_wait"
                /\ hist' = [hist EXCEPT !.events = @ + 1, !.answer = "ok",
                                        !.read = read]
           ELSE /\ log' = {[op |-> "get_documents", uid |-> _name]}
                /\ hist' = [hist EXCEPT !.events = @ + 1,
                                        !.cleaned = (o = "ok"),
                                        !.answer = "ok", !.read = read]
                /\ UNCHANGED <<queue, polled, pc>>
    /\ UNCHANGED <<engine, _name, name, new_index_name, documents, sess, calls,
                   cleanup, backend, has_documents>>
    /\ UNCHANGED indexes
    /\ UNCHANGED compiler
    /\ UNCHANGED poll

\* rebuild_index_for_model(model) on a rebuilder whose index object has no
\* backend, or whose backend returns no index for the model: a warning is
\* logged and the call returns.
rebuild_index_for_model_skipped ==
    /\ pc = "idle"
    /\ hist.events < MaxEvents
    /\ op' = "rebuild_index_for_model"
    /\ log' = {}
    /\ ret' = "None"
    /\ \E found \in {"no_backend", "no_index"} :
        hist' = [hist EXCEPT !.events = @ + 1, !.cleaned = FALSE,
                             !.answer = found, !.read = "none"]
    /\ UNCHANGED <<engine, queue, polled, _name, name, pc, new_index_name,
                   documents, sess, calls, cleanup, backend, has_documents,
                   indexes, compiler, poll>>

\* _bulk_delete_documents: _wait_for_task_completion polls the task
\* (timeout=300) and its result is dropped.
rebuild_index_for_model_wait ==
    /\ pc = "rebuild_index_for_model_wait"
    /\ hist' = [hist EXCEPT !.cleaned = check_for_task_successful_completion]
    /\ pc' = "idle"
    /\ polled' = "none"
    /\ queue' = Unwatch(queue)
    /\ UNCHANGED <<engine, _name, name, new_index_name, documents, ret, log,
                   sess, calls, op, cleanup, backend, has_documents>>
    /\ UNCHANGED indexes
    /\ UNCHANGED compiler
    /\ UNCHANGED poll

\* The number of indexes client.get_indexes() returns when it is called
\* without parameters: the first page of the engine's list.
DefaultLimit == 20

\* The index names an engine can hold, in the order the engine lists them:
\* the index of MoviePage, the shadow of its rebuild, and the indexes of
\* other models.
Uids ==
    <<LogicalName, LogicalName \o "_new">>
        \o [i \in 1..(DefaultLimit - 1) |-> "wagtailmeili_testapp_page" \o str(i)]

\* backend.client.get_indexes()["results"]: the uids of the first page.
get_indexes ==
    LET Known(uid) == HasIndex(uid)
        all == SelectSeq(Uids, Known)
    IN IF Len(all) <= DefaultLimit THEN all ELSE SubSeq(all, 1, DefaultLimit)

\* What a call of reset_index or delete_all_indexes finds: the indexes the
\* engine holds and the list it returns.
Listing(h, results) ==
    [h EXCEPT !.known = DOMAIN engine, !.results = results, !.raised_at = ""]

\* reset_index(backend), up to the loop: get_indexes(); any exception is
\* raised as MeiliSearchRebuildException.
reset_index ==
    /\ pc = "idle"
    /\ calls < MaxCalls
    /\ calls' = calls + 1
    /\ op' = "reset_index"
    /\ log' = {}
    /\ \E o \in Outcomes :
        IF o = "ok"
        THEN /\ indexes' = get_indexes
             /\ hist' = Listing(hist, get_indexes)
             /\ pc' = "reset_index_next"
             /\ sess' = [sess EXCEPT !.state = AfterCall(@)]
             /\ UNCHANGED ret
        ELSE /\ ret' = "raised"
             /\ hist' = Listing(hist, <<>>)
             /\ sess' = [sess EXCEPT !.state = AfterRaise(@)]
             /\ UNCHANGED <<indexes, pc>>
    /\ UNCHANGED <<engine, queue, polled, _name, name, new_index_name,
                   documents, cleanup, backend, has_documents>>
    /\ UNCHANGED compiler
    /\ UNCHANGED poll

\* reset_index, the loop: index.delete_all_documents() for the next index of
\* the list, or the return after the last one.
reset_index_next ==
    /\ pc = "reset_index_next"
    /\ IF indexes = <<>>
       THEN /\ ret' = "None"
            /\ pc' = "idle"
            /\ UNCHANGED <<queue, polled, log, sess, hist>>
       ELSE \E o \in {"ok", "api_error"} :
            IF o = "ok"
            THEN /\ queue' = Append(queue,
                                    Watched(Task("allDocumentsDeletion",
                                                 Head(indexes), "", {}, {})))
                 /\ polled' = "enqueued"
                 /\ log' = log \cup {[op |-> "delete_all_documents",
                                       uid |-> Head(indexes)]}
                 /\ pc' = "reset_index_wait"
                 /\ UNCHANGED <<ret, sess, hist>>
            ELSE /\ ret' = "raised"
                 /\ pc' = "idle"
                 /\ sess' = [sess EXCEPT !.state = AfterRaise(@)]
                 /\ hist' = [hist EXCEPT !.raised_at = Head(indexes)]
                 /\ UNCHANGED <<queue, polled, log>>
    /\ UNCHANGED <<engine, _name, name, new_index_name, documents, calls, op,
                   cleanup, backend, has_documents, indexes>>
    /\ UNCHANGED compiler
    /\ UNCHANGED poll

\* reset_index, the wait: check_for_task_successful_completion(timeout=200);
\* not succeeded raises MeiliSearchRebuildException for that index.
reset_index_wait ==
    /\ pc = "reset_index_wait"
    /\ IF check_for_task_successful_completion
       THEN /\ indexes' = Tail(indexes)
            /\ pc' = "reset_index_next"
            /\ UNCHANGED <<ret, sess, hist>>
       ELSE /\ ret' = "raised"
            /\ pc' = "idle"
            /\ sess' = [sess EXCEPT !.state = AfterRaise(@)]
            /\ hist' = [hist EXCEPT !.raised_at = Head(indexes)]
            /\ UNCHANGED indexes
    /\ polled' = "none"
    /\ queue' = Unwatch(queue)
    /\ UNCHANGED <<engine, _name, name, new_index_name, documents, log, calls,
                   op, cleanup, backend, has_documents>>
    /\ UNCHANGED compiler
    /\ UNCHANGED poll

\* delete_all_indexes(backend), up to the loop: get_indexes(); any exception
\* is raised as MeiliSearchRebuildException.
delete_all_indexes ==
    /\ pc = "idle"
    /\ calls < MaxCalls
    /\ calls' = calls + 1
    /\ op' = "delete_all_indexes"
    /\ log' = {}
    /\ \E o \in Outcomes :
        IF o = "ok"
        THEN /\ indexes' = get_indexes
             /\ hist' = Listing(hist, get_indexes)
             /\ pc' = "delete_all_indexes_next"
             /\ sess' = [sess EXCEPT !.state = AfterCall(@)]
             /\ UNCHANGED ret
        ELSE /\ ret' = "raised"
             /\ hist' = Listing(hist, <<>>)
             /\ sess' = [sess EXCEPT !.state = AfterRaise(@)]
             /\ UNCHANGED <<indexes, pc>>
    /\ UNCHANGED <<engine, queue, polled, _name, name, new_index_name,
                   documents, cleanup, backend, has_documents>>
    /\ UNCHANGED compiler
    /\ UNCHANGED poll

\* delete_all_indexes, the loop: client.delete_index(index.uid) for the next
\* index of the list, or the return after the last one.
delete_all_indexes_next ==
    /\ pc = "delete_all_indexes_next"
    /\ IF indexes = <<>>
       THEN /\ ret' = "None"
            /\ pc' = "idle"
            /\ UNCHANGED <<queue, polled, log, sess, hist>>
       ELSE \E o \in {"ok", "api_error"} :
            IF o = "ok"
            THEN /\ queue' = Append(queue,
                                    Watched(Task("indexDeletion",
                                                 Head(indexes), "", {}, {})))
                 /\ polled' = "enqueued"
                 /\ log' = log \cup {[op |-> "delete_index",
                                       uid |-> Head(indexes)]}
                 /\ pc' = "delete_all_indexes_wait"
                 /\ UNCHANGED <<ret, sess, hist>>
            ELSE /\ ret' = "raised"
                 /\ pc' = "idle"
                 /\ sess' = [sess EXCEPT !.state = AfterRaise(@)]
                 /\ hist' = [hist EXCEPT !.raised_at = Head(indexes)]
                 /\ UNCHANGED <<queue, polled, log>>
    /\ UNCHANGED <<engine, _name, name, new_index_name, documents, calls, op,
                   cleanup, backend, has_documents, indexes>>
    /\ UNCHANGED compiler
    /\ UNCHANGED poll

\* delete_all_indexes, the wait: check_for_task_successful_completion
\* (timeout=200); not succeeded raises MeiliSearchRebuildException naming
\* the index.
delete_all_indexes_wait ==
    /\ pc = "delete_all_indexes_wait"
    /\ IF check_for_task_successful_completion
       THEN /\ indexes' = Tail(indexes)
            /\ pc' = "delete_all_indexes_next"
            /\ UNCHANGED <<ret, sess, hist>>
       ELSE /\ ret' = "raised"
            /\ pc' = "idle"
            /\ sess' = [sess EXCEPT !.state = AfterRaise(@)]
            /\ hist' = [hist EXCEPT !.raised_at = Head(indexes)]
            /\ UNCHANGED indexes
    /\ polled' = "none"
    /\ queue' = Unwatch(queue)
    /\ UNCHANGED <<engine, _name, name, new_index_name, documents, log, calls,
                   op, cleanup, backend, has_documents>>
    /\ UNCHANGED compiler
    /\ UNCHANGED poll

----------------------------------------------------------------------------
\* management/commands/cleanup_search_index.py

\* Variant of deletes that does not look at --dry-run.
deletes_in_dry_run(dry_run, stale_ids) == stale_ids # {}

\* Whether cleanup_model_index calls bulk_delete_items: there are stale ids
\* and the command does not run with --dry-run.
deletes(dry_run, stale_ids) == stale_ids # {} /\ ~dry_run

\* handle(**options), up to the loop: --dry-run or not, and --model naming an
\* indexed model, naming no model (an error is written and the command
\* returns), or absent (every indexed model is cleaned).
handle ==
    /\ pc = "idle"
    /\ calls < MaxCalls
    /\ calls' = calls + 1
    /\ op' = "cleanup_search_index"
    /\ log' = {}
    /\ \E dry_run \in BOOLEAN, model \in {"", LogicalName, RelatedName, "invalid"} :
        /\ hist' = [hist EXCEPT !.dry_run = dry_run, !.total_cleaned = 0,
                                !.report = "none", !.pks = {}, !.answer = "none"]
        /\ IF model = "invalid"
           THEN /\ ret' = "None"
                /\ indexes' = <<>>
                /\ UNCHANGED pc
           ELSE /\ indexes' = IF model = "" THEN <<LogicalName, RelatedName>>
                              ELSE <<model>>
                /\ pc' = "cleanup_model_index"
                /\ UNCHANGED ret
    /\ UNCHANGED <<engine, queue, polled, _name, name, new_index_name,
                   documents, sess, cleanup, backend, has_documents, compiler,
                   poll>>

\* The loop of handle: cleanup_model_index(backend, model, dry_run) for the
\* next model, whose index object comes from backend.get_index_for_model, and
\* after the last model the report of total_cleaned.  The ids of the index
\* minus {str(pk)} of the live records are the stale ids; they are counted,
\* and passed to bulk_delete_items unless --dry-run; every error gives 0.
cleanup_model_index ==
    /\ pc = "cleanup_model_index"
    /\ IF indexes = <<>>
       THEN /\ ret' = "None"
            /\ pc' = "idle"
            /\ hist' = [hist EXCEPT !.report = IF hist.dry_run THEN "would_have_cleaned"
                                               ELSE "cleaned"]
            /\ UNCHANGED <<queue, log, indexes>>
       ELSE \E live_pks \in SUBSET Pks,
               o \in {"ok", "lookup_error", "db_error", "api_error"},
               answer \in {"ok", "api_error"} :
            LET uid == Head(indexes)
                current_index_ids == {doc.id : doc \in DocsOf(uid)}
                live_ids_str == {JsonString(str(pk)) : pk \in live_pks}
                stale_ids == current_index_ids \ live_ids_str
                read == o = "ok" /\ HasIndex(uid)
                sent == read /\ deletes(hist.dry_run, stale_ids)
                cleaned_count == IF read /\ (~sent \/ answer = "ok")
                                 THEN Cardinality(stale_ids) ELSE 0
            IN /\ queue' = IF sent /\ answer = "ok"
                           THEN Append(queue, Task("documentDeletion", uid, "", {},
                                                   {id.s : id \in stale_ids}))
                           ELSE queue
               /\ log' = IF sent THEN log \cup {[op |-> "delete_documents", uid |-> uid]}
                         ELSE log
               /\ hist' = [hist EXCEPT !.total_cleaned = @ + cleaned_count,
                                       !.pks = live_pks,
                                       !.answer = IF ~read THEN "read_error"
                                                  ELSE IF sent THEN answer ELSE "ok"]
               /\ indexes' = Tail(indexes)
               /\ UNCHANGED <<ret, pc>>
    /\ UNCHANGED <<engine, polled, _name, name, new_index_name, documents, sess,
                   calls, op, cleanup, backend, has_documents, compiler, poll>>

----------------------------------------------------------------------------
\* index.py: MeilisearchIndex.__init__, the index name of a record type

\* The string of a sequence of characters.
RECURSIVE text(_)
text(chars) == IF chars = <<>> THEN "" ELSE chars[1] \o text(Tail(chars))

\* Record types of a project: the app label and class name of a model, and
\* for a proxy model the class name of the model it is a proxy for, in the
\* same app.  App labels are unique and the class names of an app differ
\* in more than case; a class name is an identifier, underscores allowed.
Models ==
    {[app_label |-> AppLabel, name |-> <<"M", "o", "v", "i", "e", "P", "a", "g", "e">>, proxy_for |-> <<>>],
     [app_label |-> AppLabel, name |-> <<"R", "e", "v", "i", "e", "w", "P", "a", "g", "e">>, proxy_for |-> <<>>],
     [app_label |-> AppLabel, name |-> <<"R", "e", "l", "a", "t", "e", "d", "M", "o", "v", "i", "e", "P", "a", "g", "e">>, proxy_for |-> <<>>],
     [app_label |-> AppLabel, name |-> <<"M", "o", "v", "i", "e", "P", "a", "g", "e", "W", "i", "t", "h", "M", "a", "n", "a", "g", "e", "r">>,
      proxy_for |-> <<"M", "o", "v", "i", "e", "P", "a", "g", "e">>],
     [app_label |-> <<"w", "a", "g", "t", "a", "i", "l", "m", "e", "i", "l", "i">>, name |-> <<"T", "e", "s", "t", "a", "p", "p", "_", "M", "o", "v", "i", "e", "P", "a", "g", "e">>,
      proxy_for |-> <<>>],
     [app_label |-> <<"b", "l", "o", "g">>, name |-> <<"M", "o", "v", "i", "e", "P", "a", "g", "e">>, proxy_for |-> <<>>]}

\* self._name as __init__ derives it: the lowercased app label, "_" and the
\* lowercased class name, of the base model for a proxy.
model_index_name(model) ==
    IF model.proxy_for # <<>>
    THEN text(lower(model.app_label) \o <<"_">> \o lower(model.proxy_for))
    ELSE text(lower(model.app_label) \o <<"_">> \o lower(model.name))

\* MeilisearchIndex(backend, model): the index object of a record type.
\* get_index makes a local reference, without a request.
MeilisearchIndex ==
    /\ pc = "idle"
    /\ calls < MaxCalls
    /\ calls' = calls + 1
    /\ op' = "MeilisearchIndex"
    /\ \E model \in Models :
        /\ _name' = model_index_name(model)
        /\ name' = model_index_name(model)
        /\ hist' = [hist EXCEPT !.names = @ \cup {<<model, model_index_name(model)>>}]
    /\ documents' = {}
    /\ ret' = "index"
    /\ log' = {}
    /\ UNCHANGED <<engine, queue, polled, pc, new_index_name, sess, cleanup,
                   backend, has_documents, indexes, compiler>>
    /\ UNCHANGED poll

----------------------------------------------------------------------------
\* query_compiler.py: MeilisearchQueryCompiler

\* A Python value a lookup is given: its type (str, int, bool, list, tuple)
\* and the sequence of the characters of a str, the number, the truth value,
\* or the sequence of the items of a list or tuple.
Py(t, v) == [t |-> t, v |-> v]

\* The characters of str() of a non-negative integer.
RECURSIVE digits(_)
digits(k) ==
    IF k < 10 THEN <<Digit(k)>> ELSE Append(digits(k \div 10), Digit(k % 10))

\* sep.join(parts) on sequences of characters.
RECURSIVE join(_, _)
join(sep, parts) ==
    IF parts = <<>> THEN <<>>
    ELSE IF Len(parts) = 1 THEN parts[1]
    ELSE parts[1] \o sep \o join(sep, Tail(parts))

\* f"{value}": str() of the value. A bool shows as True or False, a list or
\* tuple shows the repr of its items, where a str is quoted.
format(value) ==
    LET scalar(item) ==
            CASE item.t = "str" -> item.v
              [] item.t = "int" -> digits(item.v)
              [] item.t = "bool" ->
                    IF item.v THEN <<"T", "r", "u", "e">>
                    ELSE <<"F", "a", "l", "s", "e">>
        repr(item) ==
            IF item.t = "str" THEN <<"'">> \o item.v \o <<"'">> ELSE scalar(item)
        reprs == join(<<",", " ">>, [i \in DOMAIN value.v |-> repr(value.v[i])])
    IN CASE value.t = "list" -> <<"[">> \o reprs \o <<"]">>
         [] value.t = "tuple" ->
              <<"(">> \o reprs \o (IF Len(value.v) = 1 THEN <<",">> ELSE <<>>)
                    \o <<")">>
         [] OTHER -> scalar(value)

\* What a call returns: a string, or the exception it raised; warned when a
\* warning was logged.
Returned(chars) == [s |-> chars, error |-> "", warned |-> FALSE]
Raised(error) == [s |-> <<>>, error |-> error, warned |-> FALSE]

\* MeilisearchQueryCompiler._process_lookup(field, lookup, value).
_process_lookup(field, lookup, value) ==
    LET \* Python's truth value of the value
        truth ==
            CASE value.t = "bool" -> value.v
              [] value.t = "int" -> value.v # 0
              [] OTHER -> value.v # <<>>
        \* what `start, end = value` iterates over: the items of a list or
        \* tuple, the characters of a str
        items ==
            IF value.t = "str" THEN [i \in DOMAIN value.v |-> Py("str", <<value.v[i]>>)]
            ELSE value.v
    IN
    CASE lookup = "exact" ->
            Returned(field \o <<":", "\"">> \o format(value) \o <<"\"">>)
      [] lookup = "iexact" ->
            IF value.t = "str"
            THEN Returned(field \o <<":", "\"">> \o lower(value.v) \o <<"\"">>)
            ELSE Raised("AttributeError")
      [] lookup \in {"contains", "icontains"} ->
            Returned(field \o <<":">> \o format(value))
      [] lookup = "in" ->
            IF value.t \in {"list", "tuple"}
            THEN Returned(join(<<" ", "O", "R", " ">>,
                     [i \in DOMAIN value.v |-> field \o <<":">> \o format(value.v[i])]))
            ELSE Returned(field \o <<":">> \o format(value))
      [] lookup = "gt" -> Returned(field \o <<" ", ">", " ">> \o format(value))
      [] lookup = "gte" -> Returned(field \o <<" ", ">", "=", " ">> \o format(value))
      [] lookup = "lt" -> Returned(field \o <<" ", "<", " ">> \o format(value))
      [] lookup = "lte" -> Returned(field \o <<" ", "<", "=", " ">> \o format(value))
      [] lookup = "range" ->
            IF value.t \notin {"str", "list", "tuple"} THEN Raised("TypeError")
            ELSE IF Len(value.v) # 2 THEN Raised("ValueError")
            ELSE LET range_start == items[1]
                     range_end == items[2]
                 IN Returned(field \o <<" ">> \o format(range_start)
                                 \o <<" ", "T", "O", " ">> \o format(range_end))
      [] lookup = "exclude" ->
            Returned(<<"N", "O", "T", " ">> \o field \o <<":">> \o format(value))
      [] lookup = "isnull" ->
            IF truth
            THEN Returned(field \o <<" ", "=", " ", "N", "U", "L", "L">>)
            ELSE Returned(field \o <<" ", "!", "=", " ", "N", "U", "L", "L">>)
      [] lookup = "startswith" ->
            Returned(field \o <<":">> \o format(value) \o <<"*">>)
      [] lookup = "endswith" ->
            Returned(field \o <<":", "*">> \o format(value))
      [] OTHER -> [Returned(<<>>) EXCEPT !.warned = TRUE]

\* The compiler before any call.
NoCompiler ==
    [class |-> "none", query |-> [node |-> "MatchAll", query_string |-> <<>>],
     field |-> <<>>,
     lookup |-> "", value |-> Py("str", <<>>), result |-> Returned(<<>>),
     opt_params |-> <<>>, params |-> <<>>, supplied |-> <<>>,
     _results_cache |-> <<>>, _count_cache |-> Py("None", 0),
     requests |-> 0, returned |-> Py("None", 0)]

\* Field names, lookups and values of the filters a search is given.
Fields == {<<"t", "i", "t", "l", "e">>, <<"y", "e", "a", "r">>}
Lookups ==
    {"exact", "iexact", "contains", "icontains", "in", "gt", "gte", "lt",
     "lte", "range", "exclude", "isnull", "startswith", "endswith",
     "unsupported_lookup"}
Values ==
    {Py("str", <<"T", "e", "s", "t">>), Py("str", <<"D", "u", "n", "e">>),
     Py("str", <<>>), Py("int", 0), Py("int", 5), Py("bool", TRUE),
     Py("bool", FALSE),
     Py("list", <<Py("str", <<"t", "e", "s", "t", "1">>),
                  Py("str", <<"t", "e", "s", "t", "2">>)>>),
     Py("list", <<>>), Py("tuple", <<Py("int", 1980), Py("int", 1990)>>)}

\* A call of _process_lookup for one filter of the search.
process_lookup ==
    /\ pc = "idle"
    /\ calls < MaxCalls
    /\ calls' = calls + 1
    /\ op' = "_process_lookup"
    /\ \E field \in Fields, lookup \in Lookups, value \in Values :
        compiler' = [compiler EXCEPT !.field = field, !.lookup = lookup,
                                     !.value = value,
                                     !.result = _process_lookup(field, lookup, value)]
    /\ UNCHANGED <<engine, queue, polled, _name, name, pc, new_index_name,
                   documents, ret, log, sess, cleanup, backend, has_documents,
                   hist, indexes>>
    /\ UNCHANGED poll

\* A query a search is given: None, a raw str, or a node of
\* wagtail.search.query with its query_string or its subqueries.
Node(node, query_string) == [node |-> node, query_string |-> query_string]

Queries ==
    {Node("None", <<>>), Node("MatchAll", <<>>), Node("str", <<"t", "e", "s", "t">>),
     Node("PlainText", <<"t", "e", "s", "t">>), Node("Fuzzy", <<"t", "e", "s", "t">>), Node("Phrase", <<"t", "e", "s", "t">>),
     [node |-> "And",
      subqueries |-> <<Node("PlainText", <<"t", "e", "s", "t">>), Node("PlainText", <<"D", "u", "n", "e">>)>>],
     [node |-> "Not", subquery |-> Node("PlainText", <<"t", "e", "s", "t">>)]}

\* MeilisearchQueryCompiler.__init__: a None query becomes MatchAll, any
\* other query is stored as it was given.
MeilisearchQueryCompiler(query) ==
    [NoCompiler EXCEPT !.query = IF query.node = "None" THEN Node("MatchAll", <<>>)
                                 ELSE query]

\* backend.search(query, model): _search builds the compiler for the query,
\* its opt_params an empty dict.
search ==
    /\ pc = "idle"
    /\ calls < MaxCalls
    /\ calls' = calls + 1
    /\ op' = "search"
    /\ \E query \in Queries :
        compiler' = [MeilisearchQueryCompiler(query) EXCEPT !.class = "search"]
    /\ UNCHANGED <<engine, queue, polled, _name, name, pc, new_index_name,
                   documents, ret, log, sess, cleanup, backend, has_documents,
                   hist, indexes, poll>>

\* The autocomplete fields of the model, as the autocomplete compiler puts
\* them under attributesToSearchOn.
searchable_fields == Py("list", <<Py("str", <<"t", "i", "t", "l", "e">>)>>)

\* The names set_opt_params lets through.
MEILISEARCH_VALID_OPT_PARAMS ==
    {"attributesToCrop", "attributesToHighlight", "attributesToRetrieve",
     "attributesToSearchOn", "cropLength", "cropMarker", "facets", "filter",
     "highlightPostTag", "highlightPreTag", "hitsPerPage", "limit",
     "matchingStrategy", "offset", "page", "showMatchesPosition",
     "showRankingScore", "sort"}

\* Variant of set_opt_params that takes every parameter it is given.
set_opt_params_unsanitized(opt_params, params) ==
    [param \in DOMAIN opt_params \cup DOMAIN params |->
        IF param \in DOMAIN params THEN params[param] ELSE opt_params[param]]

\* set_opt_params(params): the dict of the allow-listed names that are in
\* params, then self.opt_params.update(it).
set_opt_params(opt_params, params) ==
    LET sanitized == [param \in MEILISEARCH_VALID_OPT_PARAMS \cap DOMAIN params
                        |-> params[param]]
    IN [param \in DOMAIN opt_params \cup DOMAIN sanitized |->
           IF param \in DOMAIN sanitized THEN sanitized[param]
           ELSE opt_params[param]]

\* A call of set_opt_params on the compiler of a search, with the opt_params
\* dict a caller passes: paging, a filter, fields to search on, and names
\* the engine's search does not know.
call_set_opt_params ==
    /\ pc = "idle"
    /\ calls < MaxCalls
    /\ compiler.class \in {"search", "autocomplete"}
    /\ calls' = calls + 1
    /\ op' = "set_opt_params"
    /\ \E params \in
            { <<>>,
              ("limit" :> Py("int", 20)) @@ ("offset" :> Py("int", 0)),
              ("limit" :> Py("int", 5)) @@ ("prefix" :> Py("bool", TRUE)),
              ("attributesToSearchOn" :> Py("list", <<Py("str", <<"y", "e", "a", "r">>)>>))
                  @@ ("q" :> Py("str", <<"D", "u", "n", "e">>)),
              ("filter" :> Py("str", <<"y", "e", "a", "r", ">", "1">>))
                  @@ ("offset" :> Py("int", 20)),
              "rankingScoreThreshold" :> Py("int", 1) } :
        compiler' = [compiler EXCEPT
                        !.opt_params = set_opt_params(@, params),
                        !.params = params,
                        !.supplied = [param \in DOMAIN @ \cup DOMAIN params |->
                                         IF param \in DOMAIN params THEN params[param]
                                         ELSE @[param]]]
    /\ UNCHANGED <<engine, queue, polled, _name, name, pc, new_index_name,
                   documents, ret, log, sess, cleanup, backend, has_documents,
                   hist, indexes, poll>>

\* backend.autocomplete(query, model): _search builds the autocomplete
\* compiler for the query.
MeilisearchAutocompleteQueryCompiler ==
    /\ pc = "idle"
    /\ calls < MaxCalls
    /\ calls' = calls + 1
    /\ op' = "autocomplete"
    /\ \E query \in Queries :
        compiler' = [MeilisearchQueryCompiler(query) EXCEPT
                        !.class = "autocomplete",
                        !.opt_params = "attributesToSearchOn" :> searchable_fields]
    /\ UNCHANGED <<engine, queue, polled, _name, name, pc, new_index_name,
                   documents, ret, log, sess, cleanup, backend, has_documents,
                   hist, indexes>>
    /\ UNCHANGED poll

\* get_query with every query it does not know compiled to the empty string.
autocomplete_get_query_degrades(query) ==
    CASE query.node = "MatchAll" -> Returned(<<>>)
      [] query.node \in {"PlainText", "str"} -> Returned(query.query_string)
      [] OTHER -> Returned(<<>>)

\* MeilisearchAutocompleteQueryCompiler.get_query on self.query.
autocomplete_get_query(query) ==
    CASE query.node = "MatchAll" -> Returned(<<>>)
      [] query.node = "PlainText" -> Returned(query.query_string)
      [] query.node = "str" -> Returned(query.query_string)
      [] OTHER -> Raised("NotImplementedError")

\* results.py, _do_search and _do_count: query_compiler.get_query().
get_query ==
    /\ pc = "idle"
    /\ calls < MaxCalls
    /\ compiler.class = "autocomplete"
    /\ calls' = calls + 1
    /\ op' = "get_query"
    /\ compiler' = [compiler EXCEPT !.result = autocomplete_get_query(compiler.query)]
    /\ UNCHANGED <<engine, queue, polled, _name, name, pc, new_index_name,
                   documents, ret, log, sess, cleanup, backend, has_documents,
                   hist, indexes>>
    /\ UNCHANGED poll

----------------------------------------------------------------------------
\* results.py: MeilisearchResults

\* What the engine answers a search with: hits with an estimated total, a
\* page of hits with the exact total, no hit, both totals, and hits alone.
SearchAnswers ==
    LET hits(ids) == "hits" :> Py("list", [i \in DOMAIN ids |-> Py("int", ids[i])])
    IN { hits(<<1, 12>>) @@ ("estimatedTotalHits" :> Py("int", 2))
             @@ ("limit" :> Py("int", 10)) @@ ("offset" :> Py("int", 0)),
         hits(<<1>>) @@ ("totalHits" :> Py("int", 12))
             @@ ("hitsPerPage" :> Py("int", 1)) @@ ("page" :> Py("int", 1)),
         hits(<<>>) @@ ("estimatedTotalHits" :> Py("int", 0)),
         hits(<<1>>) @@ ("totalHits" :> Py("int", 1))
             @@ ("estimatedTotalHits" :> Py("int", 2)),
         hits(<<12>>) }

\* Variant of get_results_count that prefers the estimate.
get_results_count_estimate_first(results) ==
    IF "estimatedTotalHits" \in DOMAIN results THEN results["estimatedTotalHits"]
    ELSE IF "totalHits" \in DOMAIN results THEN results["totalHits"]
    ELSE Py("int", Cardinality(DOMAIN results))

\* get_results_count(results): totalHits, else estimatedTotalHits, else
\* len(results).
get_results_count(results) ==
    IF "totalHits" \in DOMAIN results THEN results["totalHits"]
    ELSE IF "estimatedTotalHits" \in DOMAIN results THEN results["estimatedTotalHits"]
    ELSE Py("int", Cardinality(DOMAIN results))

\* The results object after _do_search(): get_query() of its compiler (the
\* plain compiler returns for every query), the search request, to whose
\* answer the keys pks and model are added, and both caches set from it.
\* An exception of get_query or of the request leaves the caches.
Searched(self, answer) ==
    LET query_string == IF self.class = "autocomplete"
                        THEN autocomplete_get_query(self.query)
                        ELSE Returned(<<>>)
        raw_search_results ==
            ("pks" :> answer["hits"])
                @@ ("model" :> Py("str", <<"M", "o", "v", "i", "e", "P", "a", "g", "e">>))
                @@ answer
    IN IF query_string.error # ""
       THEN [self EXCEPT !.returned = Py("raised", 0)]
       ELSE IF answer = <<>>
       THEN [self EXCEPT !.requests = @ + 1, !.returned = Py("raised", 0)]
       ELSE [self EXCEPT !.requests = @ + 1,
                         !._results_cache = raw_search_results,
                         !._count_cache = get_results_count(raw_search_results),
                         !.returned = Py("dict", 0)]

\* results._do_search(); the engine answers the request or not.
_do_search ==
    /\ pc = "idle"
    /\ calls < MaxCalls
    /\ compiler.class \in {"search", "autocomplete"}
    /\ calls' = calls + 1
    /\ op' = "_do_search"
    /\ \E answer \in SearchAnswers \cup {<<>>} :
        compiler' = Searched(compiler, answer)
    /\ UNCHANGED <<engine, queue, polled, _name, name, pc, new_index_name,
                   documents, ret, log, sess, cleanup, backend, has_documents,
                   hist, indexes, poll>>

\* results._do_count(): _do_search() when no count is cached, then the
\* cached count.
_do_count ==
    /\ pc = "idle"
    /\ calls < MaxCalls
    /\ compiler.class \in {"search", "autocomplete"}
    /\ calls' = calls + 1
    /\ op' = "_do_count"
    /\ \E answer \in SearchAnswers \cup {<<>>} :
        LET self == IF compiler._count_cache = Py("None", 0)
                    THEN Searched(compiler, answer)
                    ELSE [compiler EXCEPT !.returned = Py("None", 0)]
        IN compiler' = IF self.returned = Py("raised", 0) THEN self
                       ELSE [self EXCEPT !.returned = self._count_cache]
    /\ UNCHANGED <<engine, queue, polled, _name, name, pc, new_index_name,
                   documents, ret, log, sess, cleanup, backend, has_documents,
                   hist, indexes, poll>>

----------------------------------------------------------------------------
\* A document an earlier run wrote.
OldDoc(pk) == [id |-> JsonNumber(pk), rev |-> 0, title |-> "A New Hope"]

\* The engine when the index object is constructed: empty, or holding the
\* logical index an earlier run populated, possibly with the shadow an
\* interrupted rebuild left behind.
InitialEngines ==
    { <<>>,
      LogicalName :> {OldDoc(1), OldDoc(12)},
      (LogicalName :> {OldDoc(1), OldDoc(12)})
          @@ ((LogicalName \o "_new") :> {OldDoc(12)}) }

Init ==
    /\ engine \in InitialEngines
    /\ queue = <<>>
    /\ polled = "none"
    /\ _name = LogicalName
    /\ name = LogicalName
    /\ pc = "idle"
    /\ new_index_name = ""
    /\ documents = {}
    /\ ret = "index"
    /\ log = {}
    /\ sess = NoSession(0)
    /\ calls = 0
    /\ op = "init"
    /\ cleanup = NoCleanup
    /\ backend = NoSkips
    /\ has_documents = FALSE
    /\ hist = NoHist
    /\ indexes = <<>>
    /\ compiler = NoCompiler
    /\ poll = NoPoll

Next ==
    \/ TaskSucceeds
    \/ TaskFails
    \/ get_index_for_model
    \/ add_model
    \/ add_model_poll
    \/ add_items
    \/ add_items_send
    \/ start
    \/ start_is_in_new
    \/ start_delete
    \/ start_wait
    \/ finish
    \/ finish_swap
    \/ finish_poll_swap
    \/ finish_delete
    \/ finish_poll_delete

Spec == Init /\ [][Next]_vars

\* An index object after construction, for the model of the index name.
Constructed(index_name) ==
    /\ queue = <<>>
    /\ polled = "none"
    /\ _name = index_name
    /\ name = index_name
    /\ pc = "idle"
    /\ new_index_name = ""
    /\ documents = {}
    /\ ret = "index"
    /\ log = {}
    /\ sess = NoSession(0)
    /\ calls = 0
    /\ op = "init"
    /\ cleanup = NoCleanup
    /\ has_documents = FALSE
    /\ hist = NoHist
    /\ indexes = <<>>
    /\ compiler = NoCompiler
    /\ poll = NoPoll

\* Indexing under the skip settings of a project: a backend built from the
\* settings, an engine without indexes, and the calls of update_index and of
\* the save signal.
InitSkip ==
    /\ Constructed(LogicalName)
    /\ engine = <<>>
    /\ backend \in {MeilisearchBackend(params) : params \in Params}

NextSkip ==
    \/ TaskSucceeds
    \/ TaskFails
    \/ add_model
    \/ add_model_poll
    \/ add_item
    \/ add_item_send
    \/ add_items
    \/ add_items_send

SpecSkip == InitSkip /\ [][NextSkip]_vars

\* The management commands that empty or drop the indexes of the engine,
\* which holds none, those of one model, or those of many models.
InitReset ==
    /\ Constructed(LogicalName)
    /\ engine \in InitialEngines
                  \cup {[uid \in {Uids[i] : i \in DOMAIN Uids} |-> {OldDoc(1)}]}
    /\ backend = NoSkips

NextReset ==
    \/ TaskSucceeds
    \/ TaskFails
    \/ reset_index
    \/ reset_index_next
    \/ reset_index_wait
    \/ delete_all_indexes
    \/ delete_all_indexes_next
    \/ delete_all_indexes_wait

SpecReset == InitReset /\ [][NextReset]_vars

\* The settings of the index of CustomMoviePage, sent by add_model and by
\* update_index_settings.
InitSettings ==
    /\ Constructed(CustomName)
    /\ engine = <<>>
    /\ backend = NoSkips

NextSettings ==
    \/ TaskSucceeds
    \/ TaskFails
    \/ add_model
    \/ add_model_poll
    \/ update_index_settings

SpecSettings == InitSettings /\ [][NextSettings]_vars

\* Records that are indexed, unpublished and deleted, with the notifications
\* the store sends.
InitSignals ==
    /\ Constructed(LogicalName)
    /\ engine = <<>>
    /\ backend = NoSkips

NextSignals ==
    \/ TaskSucceeds
    \/ TaskFails
    \/ add_item
    \/ add_item_send
    \/ handle_page_unpublish
    \/ post_delete

SpecSignals == InitSignals /\ [][NextSignals]_vars

\* Indexing of RelatedMoviePage records, whose author is set or null.
\* The query compilers: the filters and queries of searches, compiled without
\* any request to the engine.
InitCompiler ==
    /\ Constructed(LogicalName)
    /\ engine = <<>>
    /\ backend = NoSkips

NextCompiler ==
    \/ process_lookup
    \/ MeilisearchAutocompleteQueryCompiler
    \/ get_query

SpecCompiler == InitCompiler /\ [][NextCompiler]_vars

\* The optional parameters of searches: compilers of both classes are built
\* and given parameters.
NextParams ==
    \/ search
    \/ MeilisearchAutocompleteQueryCompiler
    \/ call_set_opt_params

SpecParams == InitCompiler /\ [][NextParams]_vars

\* The results of searches: results objects on compilers of both classes
\* are searched and counted.
NextResults ==
    \/ search
    \/ MeilisearchAutocompleteQueryCompiler
    \/ _do_search
    \/ _do_count

SpecResults == InitCompiler /\ [][NextResults]_vars

\* The index objects of the record types of a project.
InitNames ==
    /\ Constructed(LogicalName)
    /\ engine = <<>>
    /\ backend = NoSkips

NextNames == MeilisearchIndex

SpecNames == InitNames /\ [][NextNames]_vars

\* Callers that wait for their task while the engine works, or does not.
InitPoll ==
    /\ Constructed(LogicalName)
    /\ engine = <<>>
    /\ backend = NoSkips

NextPoll ==
    \/ TaskSucceeds
    \/ TaskFails
    \/ await_task
    \/ poll_timeout
    \/ poll_get_task
    \/ poll_sleep

SpecPoll == InitPoll /\ [][NextPoll]_vars

\* The caller's process keeps running: each step of the loop is taken once
\* it can be.  Nothing is assumed of the engine.
SpecPollFair ==
    /\ SpecPoll
    /\ WF_vars(poll_timeout)
    /\ WF_vars(poll_get_task)
    /\ WF_vars(poll_sleep)

\* Reconciliation of an index an earlier run populated, against an engine
\* and a database that can fail.
NextCleanup ==
    \/ TaskSucceeds
    \/ TaskFails
    \/ cleanup_stale_documents
    \/ rebuild_index_for_model
    \/ rebuild_index_for_model_skipped
    \/ rebuild_index_for_model_wait

SpecCleanup == Init /\ [][NextCleanup]_vars

\* The notifications of an index an earlier run populated, with lookups and
\* delete requests that can fail.
NextNotify ==
    \/ TaskSucceeds
    \/ TaskFails
    \/ handle_page_unpublish
    \/ handle_page_unpublish_unsaved
    \/ post_delete

SpecNotify == Init /\ [][NextNotify]_vars

\* The cleanup command on the indexes of two models, populated by an earlier
\* run, empty or missing.
InitCommand ==
    /\ Constructed(LogicalName)
    /\ backend = NoSkips
    /\ engine \in InitialEngines
                    \cup {LogicalName :> {},
                          (LogicalName :> {OldDoc(1), OldDoc(12)})
                              @@ (RelatedName :> {OldDoc(12)})}

NextCommand ==
    \/ TaskSucceeds
    \/ TaskFails
    \/ handle
    \/ cleanup_model_index

SpecCommand == InitCommand /\ [][NextCommand]_vars

InitReplace ==
    /\ Constructed(RelatedName)
    /\ engine = <<>>
    /\ backend = NoSkips

NextReplace ==
    \/ TaskSucceeds
    \/ TaskFails
    \/ add_item
    \/ add_item_send
    \/ add_items
    \/ add_items_send

SpecReplace == InitReplace /\ [][NextReplace]_vars

\* Document synchronisation outside a rebuild: an index object that is
\* populated through add_item and add_items, starting from an engine without
\* indexes, and reconciled by cleanup_stale_documents.
InitSync ==
    /\ Init
    /\ engine = <<>>

NextSync ==
    \/ TaskSucceeds
    \/ TaskFails
    \/ add_item
    \/ add_item_send
    \/ add_items
    \/ add_items_send
    \/ cleanup_stale_documents

SpecSync == InitSync /\ [][NextSync]_vars

\* Records that are indexed one by one as they are saved, and removed by the
\* handler of page_unpublished, outside a rebuild.
NextUnpublish ==
    \/ TaskSucceeds
    \/ TaskFails
    \/ add_item
    \/ add_item_send
    \/ handle_page_unpublish

SpecUnpublish == InitSync /\ [][NextUnpublish]_vars

\* A rebuild during which records are unpublished and the cleanup of stale
\* documents runs: the logical index exists without a leftover shadow, and
\* the engine fails no task.
InitEvents ==
    /\ Init
    /\ DOMAIN engine = {LogicalName}

NextEvents ==
    \/ TaskSucceeds
    \/ add_items
    \/ add_items_send
    \/ handle_page_unpublish
    \/ rebuild_index_for_model
    \/ rebuild_index_for_model_wait
    \/ start
    \/ start_is_in_new
    \/ finish
    \/ finish_swap
    \/ finish_poll_swap
    \/ finish_delete
    \/ finish_poll_delete

SpecEvents == InitEvents /\ [][NextEvents]_vars

\* The write operations of an index object, called one after the other.
NextWrites ==
    \/ TaskSucceeds
    \/ TaskFails
    \/ add_item
    \/ add_item_send
    \/ add_items
    \/ add_items_send
    \/ delete_item
    \/ call_bulk_delete_items

SpecWrites == InitSync /\ [][NextWrites]_vars

----------------------------------------------------------------------------
\* C1: when a rebuild with swap fails (start() found the logical index and
\* derived the shadow name, no earlier write was still enqueued, and then
\* start, a write or finish raised), the logical index still holds exactly
\* the documents it held before start(), for as long as the caller issues
\* nothing new.
FailedRebuildLeavesLiveIndexUntouched ==
    (sess.live /\ sess.swap /\ sess.quiet /\ sess.state = "failed")
        => (HasIndex(_name) /\ engine[_name] = sess.pre)

\* C2: rebuild with swap of a populated logical index: once start() has
\* returned the shadow, the records were indexed with add_items, finish() has
\* returned without raising and every task of the engine has succeeded, the
\* logical index holds exactly the documents written in the session and the
\* shadow no longer exists.
RebuildWithSwapReplacesDocuments ==
    (/\ sess.live /\ sess.pre # {} /\ sess.swap /\ sess.quiet
     /\ sess.indexed
     /\ sess.state = "finished"
     /\ ~sess.task_failed /\ queue = <<>>)
        => (/\ DocsOf(_name) = sess.written
            /\ ~HasIndex(temp_index_name))

\* The engine carries out a document write that was addressed to the logical
\* index itself.
OwnWriteApplied ==
    /\ queue # <<>>
    /\ Head(queue).kind = "documentAdditionOrUpdate"
    /\ Head(queue).uid = _name
    /\ queue' = Tail(queue)

\* The engine carries out a swap that finish() requested between a shadow
\* and the logical index: the logical index takes the shadow's whole set.
SwapApplied ==
    /\ queue # <<>>
    /\ Head(queue).kind = "indexSwap"
    /\ Head(queue).uid # _name
    /\ Head(queue).uid2 = _name
    /\ queue' = Tail(queue)
    /\ engine'[_name] = DocsOf(Head(queue).uid)

\* C3: while finish() runs and after it, the logical index stays in the
\* engine, and apart from writes that were addressed to the logical index
\* itself its document set changes only in the step of a swap, in which it
\* becomes as a whole the document set of the shadow: a reader sees the old
\* set or the shadow's set, never a mixture of the two and never a missing
\* index.
SwapAtomicity ==
    [][(op = "finish" /\ op' = "finish" /\ HasIndex(_name))
          => /\ _name \in DOMAIN engine'
             /\ \/ engine'[_name] = engine[_name]
                \/ SwapApplied
                \/ OwnWriteApplied]_vars

\* C3 witness: finish() has seen the swap succeed and the logical index
\* holds the shadow's documents, which differ from the ones before start().
SwapAtomicityWitness ==
    /\ op = "finish" /\ name # _name
    /\ sess.swapped
    /\ DocsOf(_name) = sess.shadow_docs
    /\ sess.shadow_docs # {}
    /\ sess.pre # {}
    /\ sess.shadow_docs # sess.pre

\* C4: when the logical index exists as start() is called, start() raises or
\* returns with logical name + "_new" as the write target, whatever the
\* existence check's request to the engine answers.
StartOnLiveIndexTargetsShadow ==
    (op = "start" /\ pc = "idle" /\ sess.live /\ ret = "index")
        => name = temp_index_name

\* C5: cold start: when no index exists under the logical name as start() is
\* called, start() sends the engine no request that creates or deletes
\* anything, and the index it returns has the logical name as write target.
ColdStartKeepsLogicalName ==
    (op = "start" /\ ~sess.live)
        => /\ pc = "idle"
           /\ log = {}
           /\ ret = "index" => name = _name

\* C5 witness: a cold start has returned the logical name.
ColdStartWitness ==
    /\ op = "start" /\ ~sess.live /\ pc = "idle" /\ ret = "index"
    /\ name = _name /\ ~HasIndex(_name)

\* C6: the logical name never changes, the write target is the logical name
\* or the logical name + "_new", and no index of a third name exists.
WriteTargetIsLogicalOrShadow ==
    /\ _name = LogicalName
    /\ name \in {_name, temp_index_name}
    /\ DOMAIN engine \subseteq {_name, temp_index_name}

\* C7: when start() found the logical index and a leftover shadow, it
\* returns only after the shadow's deletion succeeded, so that the shadow of
\* the running session holds only documents written in it; when the deletion
\* is not confirmed start() raises and the write target stays the logical
\* name.
LeftoverShadowDeletedBeforeRebuild ==
    (sess.ghost /\ new_index_name = temp_index_name)
        => /\ sess.state = "started" =>
                /\ name = temp_index_name
                /\ DocsOf(temp_index_name) \subseteq sess.written
           /\ sess.state = "failed" /\ op = "start" =>
                /\ ret = "raised"
                /\ name = _name

\* C7 witness: the leftover shadow was deleted, start() returned and the
\* session wrote its first documents into a new shadow.
LeftoverShadowWitness ==
    /\ sess.ghost /\ new_index_name = temp_index_name
    /\ sess.state = "started"
    /\ DocsOf(temp_index_name) # {}

CleanupKeepsExactlyLiveDocuments ==
    (/\ op = "cleanup_stale_documents"
     /\ cleanup.read = "ok" /\ cleanup.quiet
     /\ ~cleanup.failed /\ queue = <<>>)
        => {DocKey(d) : d \in DocsOf(name)}
               = {DocKey(d) : d \in cleanup.index_docs}
                     \cap {str(pk) : pk \in cleanup.live_pks}

\* C10: every document an index holds after add_item or add_items has as id
\* the string form of the primary key of its record.
StoredIdIsStringOfPrimaryKey ==
    \A uid \in DOMAIN engine : \A doc \in engine[uid] :
        \E k \in Pks : doc.id = JsonString(str(k))

\* C11: outside a rebuild, once the handler of page_unpublished has had its
\* delete request accepted for a record, and the engine has carried out the
\* enqueued tasks without a deletion failing, the index of the logical name
\* holds no document of that record, until the record is written again while
\* live.
UnpublishedRecordAbsent ==
    (queue = <<>> /\ ~hist.failed)
        => \A pk \in hist.removed :
               \A doc \in DocsOf(_name) : DocKey(doc) # str(pk)

\* C11 witness: a record was indexed while live, then unpublished, and the
\* engine has carried out every task.
UnpublishedRecordWitness ==
    /\ op = "handle_page_unpublish"
    /\ queue = <<>> /\ ~hist.failed
    /\ HasIndex(_name)
    /\ \E pk \in hist.removed : \E doc \in sess.written : DocKey(doc) = str(pk)

\* The write operations of the index object.
Writes == {"add_item", "add_items", "delete_item", "bulk_delete_items"}

\* C12, as stated: when a write operation that sent a request has returned,
\* its task has reached a terminal status, so no task is enqueued.
WritesAreAwaited ==
    (op \in Writes /\ pc = "idle" /\ log # {}) => queue = <<>>

\* The step in which a write operation that sent a request returns.
WriteReturns ==
    /\ op' \in Writes /\ pc' = "idle" /\ log' # {}
    /\ pc # "idle" \/ calls' # calls

\* C12, amended: a write operation returns as soon as the engine has accepted
\* its request: the step in which it returns appends its one task for the
\* write target to the queue and changes no index; add_items, delete_item and
\* bulk_delete_items return the task, add_item returns None.
WritesReturnOnEnqueue ==
    [][WriteReturns =>
          /\ Len(queue') = Len(queue) + 1
          /\ SubSeq(queue', 1, Len(queue)) = queue
          /\ queue'[Len(queue')].uid = name
          /\ ~queue'[Len(queue')].watched
          /\ engine' = engine
          /\ ret' = IF op' = "add_item" THEN "None"
                    ELSE "task_" \o queue'[Len(queue')].kind]_vars

\* C12 witness: add_items has returned its task and a read of the write
\* target does not show a document of it.
WritesReturnOnEnqueueWitness ==
    /\ op = "add_items" /\ pc = "idle"
    /\ ret = "task_documentAdditionOrUpdate"
    /\ queue # <<>>
    /\ \E doc \in queue[Len(queue)].docs : doc \notin DocsOf(name)

\* C13: when a record whose document the session wrote to the shadow was
\* unpublished between start() and finish(), its notification handled, the
\* cleanup of rebuild_index_for_model has run since and finish() has swapped
\* and returned, then, every task carried out, the logical index holds no
\* document of that record.
RecordUnpublishedDuringRebuildAbsent ==
    (/\ sess.state = "finished" /\ sess.swapped
     /\ hist.session = sess.n /\ hist.cleaned
     /\ ~hist.failed /\ ~sess.task_failed /\ queue = <<>>)
        => \A pk \in hist.during :
               \A doc \in DocsOf(_name) : DocKey(doc) # str(pk)

\* The requests that write or delete documents.
DocumentRequests == {"documents", "delete_document", "delete_documents"}

\* C14: while a rebuild session writes to a shadow (start() has returned,
\* finish() was not called), every request that writes or deletes documents
\* of the logical index names the same physical index as the rebuild's
\* writes, the write target.
SingleActiveWriteTarget ==
    (sess.state = "started" /\ sess.swap /\ name # _name)
        => \A r \in log : r.op \in DocumentRequests => r.uid = name

\* A call of delete_item.
DeleteItemCalled == calls' = calls + 1 /\ op' = "delete_item"

\* C19: delete_item(x) sends one delete_document request to the write target,
\* for x.pk when x is a record and for x when x is a raw primary key, and
\* returns the task; on a document_not_found answer it returns None and
\* changes nothing at the engine; on every other error it raises.
DeleteItemToleratesNotFound ==
    [][DeleteItemCalled =>
          /\ engine' = engine
          /\ CASE hist'.answer = "ok" ->
                    /\ queue' = Append(queue,
                                       Task("documentDeletion", name, "", {},
                                            {str(hist'.pk)}))
                    /\ log' = {[op |-> "delete_document", uid |-> name]}
                    /\ ret' = "task_documentDeletion"
               [] hist'.answer = "document_not_found" ->
                    /\ queue' = queue
                    /\ log' = {}
                    /\ ret' = "None"
               [] OTHER ->
                    /\ queue' = queue
                    /\ log' = {}
                    /\ ret' = "raised"]_vars

\* delete_item was given a record, the engine answered with another error
\* than document_not_found, and the call raised.
DeleteItemWitness ==
    /\ op = "delete_item" /\ hist.given = "record" /\ hist.pk = 12
    /\ hist.answer = "api_error" /\ ret = "raised"

\* C20: bulk_delete_items(ids) with ids given returns None when the engine
\* answers with a document_not_found error, as delete_item does.
BulkDeleteToleratesNotFound ==
    (/\ op = "bulk_delete_items" /\ hist.pks # {}
     /\ hist.answer = "document_not_found")
        => ret = "None"

\* C15: once a record that the skip-by-field-value rule now excludes was
\* passed to add_item or add_items and the engine has carried out every task,
\* the index holds no document of that record.
ExcludedRecordHasNoDocument ==
    (queue = <<>> /\ pc = "idle" /\ ~sess.task_failed)
        => \A pk \in hist.excluded :
               \A doc \in DocsOf(name) : DocKey(doc) # str(pk)

\* The model is in the skip-list, whatever the case of the entry.
ModelInSkipList ==
    \E entry \in backend.skip_models : lower(entry) = lower(ModelIdentifier)

\* The item's field holds the forbidden value of a rule of the model,
\* whatever the case of the rule's key.
ItemMatchesRule(item) ==
    \E key \in DOMAIN backend.skip_models_by_field_value :
        /\ lower(key) = lower(ModelIdentifier)
        /\ item[backend.skip_models_by_field_value[key].field]
               = backend.skip_models_by_field_value[key].value

\* C17: prepare_documents produces no document for an item exactly when the
\* model is in the skip-list, or a rule of the model names a field whose
\* forbidden value the item holds, or the item's live flag is False, entries
\* and keys compared without regard to case; for every other item it
\* produces exactly one document, whose id is the item's primary key.
PrepareDocumentsExcludes ==
    \A item \in Items(sess.n) :
        LET docs == prepare_documents({item}) IN
        IF ModelInSkipList \/ ItemMatchesRule(item) \/ ~item.live
        THEN docs = {}
        ELSE /\ Cardinality(docs) = 1
             /\ \A doc \in docs : doc.id = JsonNumber(item.pk)

\* add_item was given a live record that the rule excludes, under settings
\* that do not skip the model, and sent nothing.
PrepareDocumentsWitness ==
    /\ op = "add_item" /\ pc = "idle" /\ calls = 1
    /\ ~ModelInSkipList /\ hist.excluded = {1}
    /\ ret = "None" /\ log = {} /\ queue = <<>>

\* C18: for a model in the skip-list, whatever add_model, add_item and
\* add_items calls were made, no request was sent to the engine: no task is
\* enqueued and the engine holds no index.
SkipListedModelIssuesNoRequest ==
    ModelInSkipList => (log = {} /\ queue = <<>> /\ engine = <<>>)

\* The model is in the skip-list under an entry written in another case,
\* add_item and add_items were called and add_model has returned None.
SkipListedModelWitness ==
    /\ ModelInSkipList /\ ModelIdentifier \notin backend.skip_models
    /\ op = "add_model" /\ ret = "None" /\ calls = 3 /\ sess.indexed

\* C16: once the engine has carried out every write of add_item and
\* add_items, the index holds, for each record written, exactly the document
\* of its latest projection: no key of an earlier document of the record
\* stays.
DocumentReplacedOnUpdate ==
    (queue = <<>> /\ pc = "idle" /\ ~sess.task_failed)
        => DocsOf(name) = sess.written

\* C21: when reset_index(backend) has returned without raising, every index
\* the engine held at the call still exists and holds no document.
ResetIndexEmptiesEveryIndex ==
    (op = "reset_index" /\ pc = "idle" /\ ret = "None")
        => \A uid \in hist.known : HasIndex(uid) /\ engine[uid] = {}

\* C22: when delete_all_indexes(backend) has returned without raising, the
\* engine holds no index.
DeleteAllIndexesLeavesNone ==
    (op = "delete_all_indexes" /\ pc = "idle" /\ ret = "None")
        => engine = <<>>

\* C23: whatever number of update_index_settings and add_model calls were
\* made for a model with custom ranking rules, the backend's ranking rules
\* are the base rules, followed after the first update by the model's rules
\* once.
RankingRulesAppendedOnce ==
    HasRankingRules
        => backend.ranking_rules
              \in {RANKING_RULES, RANKING_RULES \o ModelRankingRules}

\* C24: for a record whose unpublishing or deletion was notified, a delete
\* request for its primary key goes to the index of its model: when every
\* delete request sent was accepted and the engine has carried out every
\* task, the index holds no document of the record.
NotifiedRecordHasNoDocument ==
    (queue = <<>> /\ ~hist.failed /\ hist.unpublished = hist.removed)
        => \A pk \in hist.unpublished \cup hist.deleted :
               \A doc \in DocsOf(_name) : DocKey(doc) # str(pk)

\* The filter string the documented table gives for a lookup and a value
\* written into the string as Python formats it.
DocumentedFilter(field, kind, value) ==
    LET v == format(value)
        term(item) == field \o <<":">> \o format(item)
    IN CASE kind = "exact" -> field \o <<":", "\"">> \o v \o <<"\"">>
         [] kind = "iexact" -> field \o <<":", "\"">> \o lower(v) \o <<"\"">>
         [] kind = "contains" -> field \o <<":">> \o v
         [] kind = "icontains" -> field \o <<":">> \o v
         [] kind = "in" /\ value.t \in {"list", "tuple"} ->
                join(<<" ", "O", "R", " ">>, [i \in DOMAIN value.v |-> term(value.v[i])])
         [] kind = "in" /\ value.t \notin {"list", "tuple"} -> field \o <<":">> \o v
         [] kind = "gt" -> field \o <<" ", ">", " ">> \o v
         [] kind = "gte" -> field \o <<" ", ">", "=", " ">> \o v
         [] kind = "lt" -> field \o <<" ", "<", " ">> \o v
         [] kind = "lte" -> field \o <<" ", "<", "=", " ">> \o v
         [] kind = "range" ->
                field \o <<" ">> \o format(value.v[1]) \o <<" ", "T", "O", " ">>
                      \o format(value.v[2])
         [] kind = "exclude" -> <<"N", "O", "T", " ">> \o field \o <<":">> \o v
         [] kind = "isnull" /\ value = Py("bool", TRUE) ->
                field \o <<" ", "=", " ", "N", "U", "L", "L">>
         [] kind = "isnull" /\ value = Py("bool", FALSE) ->
                field \o <<" ", "!", "=", " ", "N", "U", "L", "L">>
         [] kind = "startswith" -> field \o <<":">> \o v \o <<"*">>
         [] kind = "endswith" -> field \o <<":", "*">> \o v

\* The lookups of the table.
DocumentedLookups ==
    {"exact", "iexact", "contains", "icontains", "in", "gt", "gte", "lt",
     "lte", "range", "exclude", "isnull", "startswith", "endswith"}

\* The values a row of the table is written for: text for iexact, a pair
\* for range, true or false for isnull.
InTable(kind, value) ==
    CASE kind = "iexact" -> value.t = "str"
      [] kind = "range" -> value.t \in {"list", "tuple"} /\ Len(value.v) = 2
      [] kind = "isnull" -> value.t = "bool"
      [] OTHER -> TRUE

\* The examples the specification and the tests give: field, lookup, value
\* and the filter string.
LookupExamples ==
    { <<<<"t", "i", "t", "l", "e">>, "exact", Py("str", <<"D", "u", "n", "e">>),
        <<"t", "i", "t", "l", "e", ":", "\"", "D", "u", "n", "e", "\"">> >>,
      <<<<"t", "i", "t", "l", "e">>, "iexact", Py("str", <<"T", "e", "s", "t">>),
        <<"t", "i", "t", "l", "e", ":", "\"", "t", "e", "s", "t", "\"">> >>,
      <<<<"y", "e", "a", "r">>, "range", Py("tuple", <<Py("int", 1980), Py("int", 1990)>>),
        <<"y", "e", "a", "r", " ", "1", "9", "8", "0", " ", "T", "O", " ",
          "1", "9", "9", "0">> >>,
      <<<<"t", "i", "t", "l", "e">>, "in", Py("list", <<Py("str", <<"t", "e", "s", "t", "1">>), Py("str", <<"t", "e", "s", "t", "2">>)>>),
        <<"t", "i", "t", "l", "e", ":", "t", "e", "s", "t", "1", " ", "O", "R", " ",
          "t", "i", "t", "l", "e", ":", "t", "e", "s", "t", "2">> >>,
      <<<<"y", "e", "a", "r">>, "gte", Py("int", 5), <<"y", "e", "a", "r", " ", ">", "=", " ", "5">> >>,
      <<<<"t", "i", "t", "l", "e">>, "isnull", Py("bool", FALSE),
        <<"t", "i", "t", "l", "e", " ", "!", "=", " ", "N", "U", "L", "L">> >>,
      <<<<"t", "i", "t", "l", "e">>, "unsupported_lookup", Py("str", <<"D", "u", "n", "e">>), <<>> >> }

\* C25: for every field and value, _process_lookup returns the filter string
\* of the documented table for each of the fourteen lookups of the table,
\* the examples of the specification and of the tests included, and the
\* empty string for any other lookup.
LookupFollowsTable ==
    op = "_process_lookup" =>
        /\ (compiler.lookup \in DocumentedLookups
              /\ InTable(compiler.lookup, compiler.value))
             => compiler.result
                  = Returned(DocumentedFilter(compiler.field, compiler.lookup,
                                              compiler.value))
        /\ compiler.lookup \notin DocumentedLookups
             => compiler.result.s = <<>> /\ compiler.result.error = ""
        /\ \A e \in LookupExamples :
             (compiler.field = e[1] /\ compiler.lookup = e[2] /\ compiler.value = e[3])
                 => compiler.result.s = e[4] /\ compiler.result.error = ""

\* A range lookup over a pair was compiled, and so was an iexact lookup whose
\* value has an uppercase letter.
LookupWitness ==
    /\ op = "_process_lookup"
    /\ \/ /\ compiler.lookup = "range"
          /\ compiler.value = Py("tuple", <<Py("int", 1980), Py("int", 1990)>>)
          /\ compiler.result.s = <<"y", "e", "a", "r">> \o <<" ">> \o <<"1", "9", "8", "0">> \o <<" ", "T", "O", " ">> \o <<"1", "9", "9", "0">>
       \/ /\ compiler.lookup = "iexact"
          /\ compiler.value = Py("str", <<"T", "e", "s", "t">>)
          /\ compiler.result.error = ""

\* C26 as stated: the autocomplete get_query compiles MatchAll to the empty
\* string and PlainText to its text, and raises NotImplementedError for a
\* query of any other kind.
AutocompleteOnlyMatchAllAndPlainText ==
    op = "get_query" =>
        CASE compiler.query.node = "MatchAll" -> compiler.result = Returned(<<>>)
          [] compiler.query.node = "PlainText" ->
                compiler.result = Returned(compiler.query.query_string)
          [] OTHER -> compiler.result.error = "NotImplementedError"

\* C26, amended: a query given as a raw string is compiled to that string
\* too; every query node other than MatchAll and PlainText raises
\* NotImplementedError.
AutocompleteRaisesOnOtherNodes ==
    op = "get_query" =>
        CASE compiler.query.node = "MatchAll" -> compiler.result = Returned(<<>>)
          [] compiler.query.node \in {"PlainText", "str"} ->
                compiler.result = Returned(compiler.query.query_string)
          [] OTHER -> compiler.result = Raised("NotImplementedError")

\* get_query was called on an autocomplete compiler holding a Fuzzy query.
AutocompleteWitness ==
    /\ op = "get_query"
    /\ compiler.query.node = "Fuzzy"
    /\ compiler.result.error = "NotImplementedError"

\* C27: two distinct record types that are not proxies never derive the same
\* index name.
IndexNameUniquePerRecordType ==
    \A a, b \in hist.names :
        (a[1].proxy_for = <<>> /\ b[1].proxy_for = <<>> /\ a[1] # b[1])
            => a[2] # b[2]

PollAnswer ==
    /\ poll.elapsed < MaxTime
    /\ pc = "poll_sleep" => poll.status \in {"enqueued", "processing"}
    /\ (op = "check_for_task_successful_completion" /\ pc = "idle") =>
          /\ ret \in {"True", "False", "raised"}
          /\ ret = "True" => poll.status = "succeeded"
          /\ (poll.status = "succeeded" /\ ret # "raised") => ret = "True"
          /\ (poll.status = "failed" /\ ret # "raised") => ret = "False"
          /\ (poll.status \in {"none", "enqueued", "processing"} /\ ret # "raised")
                => ret = "False" /\ poll.elapsed > poll.timeout

\* C29: check_for_task_successful_completion always terminates, whatever the
\* engine does with the task: it returns True only after it read the status
\* "succeeded", False once it read "failed", and False once the timeout has
\* elapsed with the task still enqueued or processing when last read.
PollTerminates ==
    /\ []PollAnswer
    /\ (pc # "idle") ~> (pc = "idle")

\* A call has returned False on the timeout, the task still not carried out.
PollWitness ==
    /\ op = "check_for_task_successful_completion" /\ pc = "idle"
    /\ ret = "False"
    /\ poll.status \in {"enqueued", "processing"}
    /\ poll.elapsed > poll.timeout
    /\ queue # <<>>

\* C30: cleanup_stale_documents and rebuild_index_for_model never raise: a
\* failed read of the live keys or of the ids of the index and a delete
\* request the engine does not accept are caught, and the call returns None.
ReconciliationNeverRaises ==
    op \in {"cleanup_stale_documents", "rebuild_index_for_model"} => ret = "None"

\* Both reconciliation calls have returned after an error: the engine did
\* not accept the delete request of cleanup_stale_documents, and in
\* rebuild_index_for_model the query for the live keys or the delete request
\* failed.
ReconciliationWitness ==
    /\ pc = "idle" /\ ret = "None"
    /\ op \in {"cleanup_stale_documents", "rebuild_index_for_model"}
    /\ cleanup.read = "ok" /\ cleanup.answer \in {"api_error", "comm_error"}
    /\ hist.answer \in {"db_error", "api_error"}

CleanupModelStep ==
    pc = "cleanup_model_index" /\ indexes # <<>> /\ indexes' = Tail(indexes)

\* The stale ids of the model the command is at, for the live keys it read:
\* the ids of the index minus the stringified live primary keys.
StaleIds(live_pks) ==
    {doc.id : doc \in DocsOf(Head(indexes))} \ {JsonString(str(pk)) : pk \in live_pks}

\* C32: with --dry-run no step of the command sends a delete or changes an
\* index, and the count of the model's stale ids is added to the total;
\* without it a model whose ids were read gets one bulk delete of exactly
\* its stale ids, or none when there is none, and the count is added when
\* the delete was accepted; the command reports the total it summed.
CleanupCommandDeletesStaleOnly ==
    [][/\ CleanupModelStep =>
            /\ engine' = engine
            /\ hist.dry_run =>
                  /\ queue' = queue /\ log' = log
                  /\ hist'.answer = "ok" =>
                        hist'.total_cleaned
                            = hist.total_cleaned + Cardinality(StaleIds(hist'.pks))
            /\ (~hist.dry_run /\ hist'.answer = "ok") =>
                  /\ hist'.total_cleaned
                        = hist.total_cleaned + Cardinality(StaleIds(hist'.pks))
                  /\ IF StaleIds(hist'.pks) = {}
                     THEN queue' = queue /\ log' = log
                     ELSE /\ queue' = Append(queue, queue'[Len(queue')])
                          /\ queue'[Len(queue')].kind = "documentDeletion"
                          /\ queue'[Len(queue')].uid = Head(indexes)
                          /\ queue'[Len(queue')].ids
                                = {id.s : id \in StaleIds(hist'.pks)}
            /\ hist'.answer # "ok" =>
                  queue' = queue /\ hist'.total_cleaned = hist.total_cleaned
       /\ (pc = "cleanup_model_index" /\ pc' = "idle") =>
            /\ queue' = queue /\ engine' = engine
            /\ hist'.total_cleaned = hist.total_cleaned
            /\ hist'.report = IF hist.dry_run THEN "would_have_cleaned"
                              ELSE "cleaned"]_vars

\* A dry run has reported stale documents, every one of them still in its
\* index, and a run without --dry-run has its bulk delete in the queue.
CleanupCommandWitness ==
    /\ op = "cleanup_search_index" /\ pc = "idle"
    /\ \/ /\ hist.report = "would_have_cleaned"
          /\ hist.total_cleaned = 3
          /\ queue = <<>>
       \/ /\ hist.report = "cleaned"
          /\ hist.total_cleaned = 2
          /\ queue # <<>>

\* C33: whatever calls of set_opt_params a compiler of either class got,
\* every name in its opt_params is allow-listed, and every allow-listed
\* name that was supplied carries the value supplied last.
OptParamsSanitized ==
    /\ DOMAIN compiler.opt_params \subseteq MEILISEARCH_VALID_OPT_PARAMS
    /\ \A param \in DOMAIN compiler.supplied \cap MEILISEARCH_VALID_OPT_PARAMS :
          /\ param \in DOMAIN compiler.opt_params
          /\ compiler.opt_params[param] = compiler.supplied[param]

\* An autocomplete compiler was given parameters twice: limit twice, the
\* later value kept, and names outside the allow-list, dropped.
OptParamsWitness ==
    /\ op = "set_opt_params"
    /\ compiler.class = "autocomplete"
    /\ DOMAIN compiler.supplied \ MEILISEARCH_VALID_OPT_PARAMS # {}
    /\ "limit" \in DOMAIN compiler.params
    /\ "offset" \in DOMAIN compiler.opt_params
    /\ compiler.opt_params["limit"] = Py("int", 5)
    /\ compiler.opt_params["attributesToSearchOn"] = searchable_fields

\* A call of finish(), up to its existence check.
FinishStep == pc = "idle" /\ op' = "finish" /\ calls' = calls + 1

FinishSwapsOnlyFromShadow ==
    [][/\ (pc = "finish_swap" /\ pc' # "finish_swap" /\ sess.state = "finishing")
            => /\ name # _name
               /\ queue' = Append(queue, Watched(Task("indexSwap", name, _name, {}, {})))
       /\ (pc \in {"finish_swap", "finish_delete"} /\ sess.state = "finishing"
              /\ ~sess.swap /\ name = _name)
            => log' = log]_vars

\* C36: once finish() has swapped and the deletion of the shadow was
\* confirmed, every write sent through the same index object goes to the
\* index of the logical name.
WritesAfterFinishReachLogical ==
    [][(/\ sess.swapped /\ sess.deleted = "confirmed"
        /\ sess.state \in {"finished", "over"}
        /\ pc = "add_items_send"
        /\ Len(queue') = Len(queue) + 1)
          => queue'[Len(queue')].uid = _name]_vars

ReconciliationSkipsWhenBlind ==
    [][(/\ pc = "idle" /\ op' = "rebuild_index_for_model"
        /\ hist'.events = hist.events + 1
        /\ \/ hist'.read = "error"
           \/ hist'.answer \in {"no_backend", "no_index"})
          => /\ pc' = "idle"
             /\ ret' = "None"
             /\ queue' = queue
             /\ engine' = engine
             /\ \A r \in log' : r.op # "delete_documents"
             /\ hist'.read = "none" => log' = {}]_vars

\* The read of the ids failed while the index held documents of records
\* that are not live, and on another call there was no index object to
\* clean: the documents are all still there.
ReconciliationBlindWitness ==
    /\ op = "rebuild_index_for_model" /\ pc = "idle" /\ ret = "None"
    /\ hist.events = 2
    /\ hist.read = "error"
    /\ log = {[op |-> "get_documents", uid |-> _name]}
    /\ queue = <<>>
    /\ DocsOf(_name) = {OldDoc(1), OldDoc(12)}

\* The count of a cached result mapping: totalHits when present, else
\* estimatedTotalHits, else the number of its keys.
CountOf(results) ==
    IF "totalHits" \in DOMAIN results THEN results["totalHits"]
    ELSE IF "estimatedTotalHits" \in DOMAIN results THEN results["estimatedTotalHits"]
    ELSE Py("int", Cardinality(DOMAIN results))

====
